---- MODULE Spec2Model ----
(***************************************************************************)
(* Document manipulation core of the agenda editor:                        *)
(*   src/src/lib/editor/tools.ts          mergeDocuments, splitDocumentAt  *)
(*   src/src/lib/editor/utils/position.ts block/offset <-> absolute        *)
(*   src/src/lib/editor/utils/selection.ts  text of a selection            *)
(*   nodes/ProjectChip, stores/projects   resolveLabel and the store       *)
(* and the application around it:                                          *)
(*   src/src/lib/editor/api/content.ts    insertAt                         *)
(*   src/src/lib/stores/editors.ts        the registry of focus functions  *)
(*   src/src/lib/stores/workspace.ts      the blocks store, documentView   *)
(*   src/src/routes/BlockElement.svelte   Enter and Backspace in a block   *)
(*   src/src/lib/editor/Editor.svelte     debounced update, content sync   *)
(*   src/src/lib/editor/api/popup.ts      hide, checkAndShow               *)
(*                                                                         *)
(* JSON values are TLA+ records whose optional keys may be absent, exactly *)
(* as in the TipTap JSON: a text run is [type, text, marks?], an atomic    *)
(* inline node [type, attrs?], a block [type, attrs?, content?], a         *)
(* document [type, content?].  A text is a sequence of characters.  An     *)
(* attrs object is a set of [k, v] pairs; a value v is [t |-> "prim", x]   *)
(* for a primitive and [t |-> "obj", x] for a nested object or array.      *)
(* The key "ref" is not JSON: it is the identity of an object the caller   *)
(* holds.  Objects built inside a call (literals, JSON copies) have none.  *)
(***************************************************************************)
EXTENDS Integers, Sequences, FiniteSets, TLC

VARIABLES
    pc,       \* position of the caller: "ready", then the last call made
    docA,     \* first argument of mergeDocuments / the document split
    docB,     \* second argument of mergeDocuments
    pos,      \* position argument of splitDocumentAt / of the position mapper
    out,      \* what the last call returned
    snap,     \* the caller's documents as they were when the caller got them
    calls,    \* number of calls made so far
    projects, \* the value of the projects store
    selection, \* the editor's cursor: a position of its document
    docC,     \* a third document, for merges of three
    registry, \* editors.ts: the focus function registered for each id
    blocksStore,   \* workspace.ts: the value of the blocks store
    boundContent,  \* Editor.svelte: the bound content prop
    editorDoc,     \* Editor.svelte: the document of the TipTap editor
    debounceTimer, \* Editor.svelte: the JSON the pending timer captured
    effectDirty,   \* Editor.svelte: the sync effect is scheduled to run
    isVisible,     \* popup.ts: currentState.isVisible
    suppressCheckAndShow, \* popup.ts
    timers,   \* popup.ts: expiry times of the timeouts hide() has set
    now       \* the clock, in milliseconds

\* Editor.svelte: the state of the editor component
editorVars == <<boundContent, editorDoc, debounceTimer, effectDirty>>

\* popup.ts: the state of the popup API and of its timers
popupVars == <<isVisible, suppressCheckAndShow, timers, now>>

\* the state of the application around the document library
appVars == <<selection, docC, registry, blocksStore, editorVars, popupVars>>

\* the state the document library is exercised with
libVars == <<pc, docA, docB, pos, out, snap, calls, projects>>

vars == <<libVars, appVars>>

-----------------------------------------------------------------------------
(* Optional keys.  Opt(n, f) is <<>> for an absent (undefined) key.        *)

Has(n, f) == f \in DOMAIN n

Opt(n, f) == IF Has(n, f) THEN <<n[f]>> ELSE <<>>

With(n, f, v) == [k \in DOMAIN n \cup {f} |-> IF k = f THEN v ELSE n[k]]

Without(n, f) == [k \in DOMAIN n \ {f} |-> n[k]]

\* the content of a node, empty when it has none
Content(block) == IF Has(block, "content") THEN block.content ELSE <<>>

-----------------------------------------------------------------------------
(* tools.ts: utility functions                                             *)

\* A copy that still is the caller's object: what a missing clone gives.
deepCloneShared(v) == v

\* JSON.parse(JSON.stringify(v)): the same JSON, no object shared with v.
RECURSIVE deepClone(_)
deepClone(v) ==
    [k \in DOMAIN v \ {"ref"} |->
        IF k = "content"
        THEN [i \in DOMAIN v.content |-> deepClone(v.content[i])]
        ELSE v[k]]

isTextNode(n) == n.type = "text" /\ Has(n, "text")

\* a === b on attribute values: primitives by value, objects by identity.
\* Every object reaching attrsEqual comes out of a separate JSON copy, so
\* two object values are never the same object.
strictEqual(u, v) == u.t = "prim" /\ v.t = "prim" /\ u.x = v.x

\* attrsEqual comparing the keys and not the values
attrsEqualKeysOnly(a, b) ==
    LET aa == IF a = <<>> THEN {} ELSE a[1]
        bb == IF b = <<>> THEN {} ELSE b[1]
    IN  {p.k : p \in aa} = {p.k : p \in bb}

attrsEqual(a, b) ==
    LET aa == IF a = <<>> THEN {} ELSE a[1]
        bb == IF b = <<>> THEN {} ELSE b[1]
        keys == {p.k : p \in aa}
    IN  IF Cardinality(keys) # Cardinality({p.k : p \in bb}) THEN FALSE
        ELSE \A p \in aa : \E q \in bb : q.k = p.k /\ strictEqual(p.v, q.v)

marksEqual(a, b) ==
    IF a = <<>> /\ b = <<>> THEN TRUE
    ELSE IF a = <<>> \/ b = <<>> THEN FALSE
    ELSE IF Len(a[1]) # Len(b[1]) THEN FALSE
    ELSE \A i \in 1..Len(a[1]) :
            /\ a[1][i].type = b[1][i].type
            /\ attrsEqual(Opt(a[1][i], "attrs"), Opt(b[1][i], "attrs"))

-----------------------------------------------------------------------------
(* tools.ts: document merging                                              *)

RECURSIVE mergeInlineArrays(_, _), mergeInlineLoop(_, _)

\* the for-loop of mergeInlineArrays over the rest of `right`
mergeInlineLoop(result, right) ==
    IF right = <<>> THEN result
    ELSE
        LET node == Head(right)
            n == Len(result)
        IN  IF n = 0
            THEN mergeInlineLoop(<<deepClone(node)>>, Tail(right))
            ELSE
              LET prev == result[n] IN
              IF /\ isTextNode(prev) /\ isTextNode(node)
                 /\ marksEqual(Opt(prev, "marks"), Opt(node, "marks"))
              THEN mergeInlineLoop(
                     [result EXCEPT ![n] = With(prev, "text", prev.text \o node.text)],
                     Tail(right))
              ELSE IF /\ ~isTextNode(prev) /\ ~isTextNode(node)
                      /\ prev.type = node.type
                      /\ attrsEqual(Opt(prev, "attrs"), Opt(node, "attrs"))
                      /\ Has(prev, "content") /\ Has(node, "content")
              THEN mergeInlineLoop(
                     [result EXCEPT ![n] =
                        With(prev, "content", mergeInlineArrays(prev.content, node.content))],
                     Tail(right))
              ELSE mergeInlineLoop(Append(result, deepClone(node)), Tail(right))

mergeInlineArrays(left, right) ==
    mergeInlineLoop([i \in DOMAIN left |-> deepClone(left[i])], right)

RECURSIVE normalizeBlock(_), normalizeLoop(_, _)

\* the for-loop of normalizeInlineTextNodes over the children of one block
normalizeLoop(merged, children) ==
    IF children = <<>> THEN merged
    ELSE
        LET child == Head(children)
            n == Len(merged)
        IN  IF n = 0
            THEN normalizeLoop(<<deepClone(child)>>, Tail(children))
            ELSE
              LET prev == merged[n] IN
              IF /\ isTextNode(prev) /\ isTextNode(child)
                 /\ marksEqual(Opt(prev, "marks"), Opt(child, "marks"))
              THEN normalizeLoop(
                     [merged EXCEPT ![n] = With(prev, "text", prev.text \o child.text)],
                     Tail(children))
              ELSE IF /\ ~isTextNode(prev) /\ ~isTextNode(child)
                      /\ prev.type = child.type
                      /\ attrsEqual(Opt(prev, "attrs"), Opt(child, "attrs"))
                      /\ Has(prev, "content") /\ Has(child, "content")
              THEN normalizeLoop(
                     [merged EXCEPT ![n] =
                        With(prev, "content", mergeInlineArrays(prev.content, child.content))],
                     Tail(children))
              ELSE normalizeLoop(Append(merged, deepClone(child)), Tail(children))

\* a non-text node without content merged into an equal node before it
RECURSIVE mergeTwins(_)
mergeTwins(nodes) ==
    IF Len(nodes) < 2 THEN nodes
    ELSE IF ~isTextNode(nodes[1]) /\ ~Has(nodes[1], "content") /\ nodes[1] = nodes[2]
    THEN mergeTwins(Tail(nodes))
    ELSE <<Head(nodes)>> \o mergeTwins(Tail(nodes))

\* the callback merging equal non-text nodes that have no content as well
normalizeBlockTwins(block) ==
    LET normalized == deepClone(block) IN
    IF ~Has(normalized, "content") THEN normalized
    ELSE With(normalized, "content", mergeTwins(normalizeLoop(<<>>, normalized.content)))

\* the callback of doc.content.map in normalizeInlineTextNodes
normalizeBlock(block) ==
    LET normalized == deepClone(block) IN
    IF ~Has(normalized, "content") THEN normalized
    ELSE
        LET merged == normalizeLoop(<<>>, normalized.content)
        IN  With(normalized, "content",
                 [i \in DOMAIN merged |->
                     IF Has(merged[i], "content")
                     THEN normalizeBlock(merged[i])
                     ELSE merged[i]])

normalizeInlineTextNodes(doc) ==
    IF ~Has(doc, "content") THEN doc
    ELSE With(doc, "content", [i \in DOMAIN doc.content |-> normalizeBlock(doc.content[i])])

EmptyDoc == [type |-> "doc", content |-> <<>>]

\* null and undefined
Nullish == [nullish |-> TRUE]

isFalsy(d) == Has(d, "nullish")

\* the blocks of a document, none when it is null or has no content
Blocks(d) == IF ~isFalsy(d) /\ Has(d, "content") THEN d.content ELSE <<>>

AllButLast(s) == SubSeq(s, 1, Len(s) - 1)

\* mergeDocuments returning the copy of the other document as it is when
\* one document has no blocks
mergeDocumentsCopyOnly(a, b) ==
    LET docA_ == deepClone(IF isFalsy(a) THEN EmptyDoc ELSE a)
        docB_ == deepClone(IF isFalsy(b) THEN EmptyDoc ELSE b)
        contentA == IF Has(docA_, "content") THEN docA_.content ELSE <<>>
        contentB == IF Has(docB_, "content") THEN docB_.content ELSE <<>>
    IN  IF Len(contentA) = 0 THEN [type |-> "doc", content |-> contentB]
        ELSE IF Len(contentB) = 0 THEN [type |-> "doc", content |-> contentA]
        ELSE normalizeInlineTextNodes([type |-> "doc", content |-> contentA \o contentB])

\* mergeDocuments that does not join into a last block of A that is empty
mergeDocumentsKeepEmptyLast(a, b) ==
    LET docA_ == deepClone(IF isFalsy(a) THEN EmptyDoc ELSE a)
        docB_ == deepClone(IF isFalsy(b) THEN EmptyDoc ELSE b)
        contentA == IF Has(docA_, "content") THEN docA_.content ELSE <<>>
        contentB == IF Has(docB_, "content") THEN docB_.content ELSE <<>>
    IN  IF Len(contentA) = 0
        THEN normalizeInlineTextNodes([type |-> "doc", content |-> contentB])
        ELSE IF Len(contentB) = 0
        THEN normalizeInlineTextNodes([type |-> "doc", content |-> contentA])
        ELSE
          LET lastA == contentA[Len(contentA)]
              firstB == contentB[1]
          IN  IF /\ lastA.type = firstB.type
                 /\ attrsEqual(Opt(lastA, "attrs"), Opt(firstB, "attrs"))
                 /\ Content(lastA) # <<>>
              THEN
                LET rightContent == IF Has(firstB, "content") THEN firstB.content ELSE <<>>
                    mergedContent == mergeInlineArrays(lastA.content, rightContent)
                    mergedBlock == With(Without(deepClone(lastA), "ref"), "content", mergedContent)
                IN  normalizeInlineTextNodes(
                      [type |-> "doc",
                       content |-> AllButLast(contentA) \o <<mergedBlock>> \o Tail(contentB)])
              ELSE normalizeInlineTextNodes([type |-> "doc", content |-> contentA \o contentB])

mergeDocuments(a, b) ==
    LET docA_ == deepClone(IF isFalsy(a) THEN EmptyDoc ELSE a)
        docB_ == deepClone(IF isFalsy(b) THEN EmptyDoc ELSE b)
        contentA == IF Has(docA_, "content") THEN docA_.content ELSE <<>>
        contentB == IF Has(docB_, "content") THEN docB_.content ELSE <<>>
    IN  IF Len(contentA) = 0
        THEN normalizeInlineTextNodes([type |-> "doc", content |-> contentB])
        ELSE IF Len(contentB) = 0
        THEN normalizeInlineTextNodes([type |-> "doc", content |-> contentA])
        ELSE
          LET lastA == contentA[Len(contentA)]
              firstB == contentB[1]
          IN  IF /\ lastA.type = firstB.type
                 /\ attrsEqual(Opt(lastA, "attrs"), Opt(firstB, "attrs"))
              THEN
                LET leftContent == IF Has(lastA, "content") THEN lastA.content ELSE <<>>
                    rightContent == IF Has(firstB, "content") THEN firstB.content ELSE <<>>
                    mergedContent == mergeInlineArrays(leftContent, rightContent)
                    mergedBlock == With(Without(deepClone(lastA), "ref"), "content", mergedContent)
                IN  normalizeInlineTextNodes(
                      [type |-> "doc",
                       content |-> AllButLast(contentA) \o <<mergedBlock>> \o Tail(contentB)])
              ELSE normalizeInlineTextNodes([type |-> "doc", content |-> contentA \o contentB])

-----------------------------------------------------------------------------
(* tools.ts: document splitting                                            *)

RECURSIVE inlineLength(_)
\* the inner loop of computeBlockLengths: text by its length, others 1
inlineLength(content) ==
    IF content = <<>> THEN 0
    ELSE (IF isTextNode(Head(content)) THEN Len(Head(content).text) ELSE 1)
         + inlineLength(Tail(content))

blockLength(block) == IF Has(block, "content") THEN inlineLength(block.content) ELSE 0

RECURSIVE SumLengths(_)
SumLengths(lengths) ==
    IF lengths = <<>> THEN 0 ELSE Head(lengths).length + SumLengths(Tail(lengths))

computeBlockLengths(doc) ==
    LET blocks == IF Has(doc, "content") THEN doc.content ELSE <<>>
        blockLengths == [i \in DOMAIN blocks |->
                            [blockIndex |-> i - 1, length |-> blockLength(blocks[i])]]
    IN  [total |-> SumLengths(blockLengths), blockLengths |-> blockLengths]

Max(x, y) == IF x >= y THEN x ELSE y

Min(x, y) == IF x <= y THEN x ELSE y

RECURSIVE absolutePosLoopStrict(_, _, _, _)
\* the for-loop taking a block only when the position is before its end
absolutePosLoopStrict(blockLengths, p, accumulated, i) ==
    IF i > Len(blockLengths)
    THEN [blockIndex |-> Len(blockLengths) - 1,
          offset |-> blockLengths[Len(blockLengths)].length]
    ELSE IF accumulated + blockLengths[i].length > p
    THEN [blockIndex |-> blockLengths[i].blockIndex, offset |-> p - accumulated]
    ELSE absolutePosLoopStrict(blockLengths, p, accumulated + blockLengths[i].length, i + 1)

RECURSIVE absolutePosLoop(_, _, _, _)
\* the for-loop of absolutePosToBlockOffset, from block number i (1-based)
absolutePosLoop(blockLengths, p, accumulated, i) ==
    IF i > Len(blockLengths)
    THEN [blockIndex |-> Len(blockLengths) - 1,
          offset |-> blockLengths[Len(blockLengths)].length]
    ELSE IF accumulated + blockLengths[i].length >= p
    THEN [blockIndex |-> blockLengths[i].blockIndex, offset |-> p - accumulated]
    ELSE absolutePosLoop(blockLengths, p, accumulated + blockLengths[i].length, i + 1)

absolutePosToBlockOffset(doc, p) ==
    LET cbl == computeBlockLengths(doc)
        blockLengths == cbl.blockLengths
    IN  IF p <= 0 THEN [blockIndex |-> 0, offset |-> 0]
        ELSE IF p >= cbl.total \/ Len(blockLengths) = 0
        THEN LET lastIndex == Max(0, Len(blockLengths) - 1)
                 lastOffset == IF lastIndex + 1 \in DOMAIN blockLengths
                               THEN blockLengths[lastIndex + 1].length ELSE 0
             IN  [blockIndex |-> lastIndex, offset |-> lastOffset]
        ELSE absolutePosLoop(blockLengths, p, 0, 1)

\* createBlock leaving the attrs of the block behind
createBlockNoAttrs(block, content) == [type |-> block.type, content |-> content]

\* createBlock inside splitBlockAtOffset: a new object; an attrs key holding
\* undefined is the same JSON as no attrs key
createBlock(block, content) ==
    IF Has(block, "attrs")
    THEN [type |-> block.type, attrs |-> block.attrs, content |-> content]
    ELSE [type |-> block.type, content |-> content]

\* createTextNode forgetting the marks
createTextNodeNoMarks(inline, txt) == [type |-> "text", text |-> txt]

\* createTextNode inside splitBlockAtOffset
createTextNode(inline, txt) ==
    IF Has(inline, "marks")
    THEN [type |-> "text", text |-> txt, marks |-> inline.marks]
    ELSE [type |-> "text", text |-> txt]

\* the loop with the non-text node that uses up the offset put on both sides
RECURSIVE splitInlineLoopDup(_, _, _, _)
splitInlineLoopDup(rest, leftContent, rightContent, remaining) ==
    IF rest = <<>> THEN <<leftContent, rightContent>>
    ELSE
      LET inline == Head(rest) IN
      IF remaining <= 0
      THEN splitInlineLoopDup(Tail(rest), leftContent,
                              Append(rightContent, deepClone(inline)), remaining)
      ELSE IF isTextNode(inline)
      THEN
        LET text == inline.text IN
        IF Len(text) <= remaining
        THEN splitInlineLoopDup(Tail(rest), Append(leftContent, deepClone(inline)),
                                rightContent, remaining - Len(text))
        ELSE splitInlineLoopDup(Tail(rest),
               Append(leftContent, createTextNode(inline, SubSeq(text, 1, remaining))),
               Append(rightContent, createTextNode(inline, SubSeq(text, remaining + 1, Len(text)))),
               0)
      ELSE splitInlineLoopDup(Tail(rest), Append(leftContent, deepClone(inline)),
                              IF remaining = 1 THEN Append(rightContent, deepClone(inline))
                              ELSE rightContent,
                              remaining - 1)

RECURSIVE splitInlineLoop(_, _, _, _)
\* the for-loop of splitBlockAtOffset over the rest of block.content
splitInlineLoop(rest, leftContent, rightContent, remaining) ==
    IF rest = <<>> THEN <<leftContent, rightContent>>
    ELSE
      LET inline == Head(rest) IN
      IF remaining <= 0
      THEN splitInlineLoop(Tail(rest), leftContent,
                           Append(rightContent, deepClone(inline)), remaining)
      ELSE IF isTextNode(inline)
      THEN
        LET text == inline.text IN
        IF Len(text) <= remaining
        THEN splitInlineLoop(Tail(rest), Append(leftContent, deepClone(inline)),
                             rightContent, remaining - Len(text))
        ELSE
          LET leftText == createTextNode(inline, SubSeq(text, 1, remaining))
              rightText == createTextNode(inline, SubSeq(text, remaining + 1, Len(text)))
          IN  splitInlineLoop(Tail(rest),
                IF Len(leftText.text) > 0 THEN Append(leftContent, leftText) ELSE leftContent,
                IF Len(rightText.text) > 0 THEN Append(rightContent, rightText) ELSE rightContent,
                0)
      ELSE \* remaining > 0 here: the non-text node goes left
           splitInlineLoop(Tail(rest), Append(leftContent, deepClone(inline)),
                           rightContent, remaining - 1)

\* splitBlockAtOffset sending a non-text node that ends the left half to the
\* right half
splitBlockAtOffsetAtomRight(block, offset) ==
    IF ~Has(block, "content") \/ Len(block.content) = 0
    THEN <<createBlock(block, <<>>), createBlock(block, <<>>)>>
    ELSE
      LET halves == splitInlineLoop(block.content, <<>>, <<>>, offset)
          l == halves[1]
      IN  IF l # <<>> /\ ~isTextNode(l[Len(l)])
          THEN <<createBlock(block, SubSeq(l, 1, Len(l) - 1)),
                 createBlock(block, <<l[Len(l)]>> \o halves[2])>>
          ELSE <<createBlock(block, halves[1]), createBlock(block, halves[2])>>

splitBlockAtOffset(block, offset) ==
    IF ~Has(block, "content") \/ Len(block.content) = 0
    THEN <<createBlock(block, <<>>), createBlock(block, <<>>)>>
    ELSE
      LET halves == splitInlineLoop(block.content, <<>>, <<>>, offset)
      IN  <<createBlock(block, halves[1]), createBlock(block, halves[2])>>

isNumber(p) == Has(p, "abs")

\* lines 341-355 of splitDocumentAt: the clone, the blocks, the clamped target
splitTarget(doc, p) ==
    LET cloned == deepClone(IF isFalsy(doc) THEN EmptyDoc ELSE doc)
        blocks == IF Has(cloned, "content") THEN cloned.content ELSE <<>>
        target == IF isNumber(p) THEN absolutePosToBlockOffset(cloned, p.abs) ELSE p
    IN  [blocks |-> blocks,
         blockIndex |-> Max(0, Min(target.blockIndex, Max(0, Len(blocks) - 1))),
         offset |-> Max(0, target.offset)]

\* splitDocumentAt giving each side an empty paragraph when the document
\* has no blocks
splitDocumentAtPadded(doc, p) ==
    LET t == splitTarget(doc, p)
        blocks == t.blocks
        blockIndex == t.blockIndex
    IN  IF Len(blocks) = 0
        THEN [left |-> [type |-> "doc", content |-> <<[type |-> "paragraph", content |-> <<>>]>>],
              right |-> [type |-> "doc", content |-> <<[type |-> "paragraph", content |-> <<>>]>>]]
        ELSE
          LET leftContent == [i \in 1..blockIndex |-> deepClone(blocks[i])]
              rightContent == [i \in 1..(Len(blocks) - blockIndex - 1) |->
                                  deepClone(blocks[blockIndex + 1 + i])]
              halves == splitBlockAtOffset(blocks[blockIndex + 1], t.offset)
          IN  [left |-> normalizeInlineTextNodes(
                          [type |-> "doc", content |-> leftContent \o <<halves[1]>>]),
               right |-> normalizeInlineTextNodes(
                          [type |-> "doc", content |-> <<halves[2]>> \o rightContent])]

splitDocumentAt(doc, p) ==
    LET t == splitTarget(doc, p)
        blocks == t.blocks
        blockIndex == t.blockIndex
    IN  IF Len(blocks) = 0
        THEN [left |-> EmptyDoc, right |-> EmptyDoc]
        ELSE
          LET leftContent == [i \in 1..blockIndex |-> deepClone(blocks[i])]
              rightContent == [i \in 1..(Len(blocks) - blockIndex - 1) |->
                                  deepClone(blocks[blockIndex + 1 + i])]
              halves == splitBlockAtOffset(blocks[blockIndex + 1], t.offset)
              leftDoc == [type |-> "doc", content |-> leftContent \o <<halves[1]>>]
              rightDoc == [type |-> "doc", content |-> <<halves[2]>> \o rightContent]
          IN  [left |-> normalizeInlineTextNodes(leftDoc),
               right |-> normalizeInlineTextNodes(rightDoc)]

-----------------------------------------------------------------------------
(* utils/position.ts on the editor's ProseMirror document.  The document   *)
(* is the same JSON; a block without content key is an empty block.        *)

\* Node.isText
isText(child) == child.type = "text"

_childTextLength(child) == IF isText(child) THEN Len(child.text) ELSE 1

RECURSIVE inlineSize(_)
\* Fragment.size of inline content: a text run by its length, a leaf 1
inlineSize(content) ==
    IF content = <<>> THEN 0
    ELSE _childTextLength(Head(content)) + inlineSize(Tail(content))

\* block.nodeSize: the content and the opening and closing token
nodeSize(block) == 2 + (IF Has(block, "content") THEN inlineSize(block.content) ELSE 0)

childCount(node) == IF Has(node, "content") THEN Len(node.content) ELSE 0

RECURSIVE sizeBefore(_, _)
\* the loop of lines 35-37: the sizes of the blocks before block bi
sizeBefore(doc, bi) ==
    IF bi <= 0 THEN 0 ELSE nodeSize(doc.content[bi]) + sizeBefore(doc, bi - 1)

\* doc.content.size
contentSize(doc) == sizeBefore(doc, childCount(doc))

RECURSIVE offsetLoop(_, _, _, _, _)
\* the loop of lines 46-53 from child j (1-based), then line 55
offsetLoop(block, p, ofs, accum, j) ==
    IF j > childCount(block) THEN p + nodeSize(block) - 1
    ELSE LET childLen == _childTextLength(block.content[j])
         IN  IF accum + childLen >= ofs
             THEN p + accum + Max(0, Min(childLen, ofs - accum))
             ELSE offsetLoop(block, p, ofs, accum + childLen, j + 1)

computeAbsolutePosForBlockOffset(editor, blockIndex, offset) ==
    IF isFalsy(editor) THEN 1
    ELSE
      LET doc == editor
          numBlocks == childCount(doc)
          bi == Max(0, Min(blockIndex, numBlocks - 1))
          ofs == Max(0, offset)
          p == 1 + sizeBefore(doc, Min(bi, numBlocks))
      IN  IF bi >= numBlocks THEN contentSize(doc)
          ELSE offsetLoop(doc.content[bi + 1], p, ofs, 0, 1)

RECURSIVE innerLoop(_, _, _, _, _)
\* the loop of lines 90-100 from child j (1-based), then line 103
innerLoop(block, i, innerPos, accum, j) ==
    IF j > childCount(block) THEN [blockIndex |-> i, offset |-> accum]
    ELSE LET childLen == _childTextLength(block.content[j])
         IN  IF innerPos < accum + childLen
             THEN [blockIndex |-> i, offset |-> innerPos]
             ELSE innerLoop(block, i, innerPos, accum + childLen, j + 1)

RECURSIVE blockLoop(_, _, _, _)
\* the loop of lines 71-105 from block i (0-based), then line 107
blockLoop(doc, p, running, i) ==
    IF i >= childCount(doc) THEN [blockIndex |-> Max(0, childCount(doc) - 1), offset |-> 0]
    ELSE
      LET block == doc.content[i + 1]
          blockStart == running
          blockEnd == running + nodeSize(block) - 1
      IN  IF p >= blockStart /\ p <= blockEnd
          THEN LET innerPos == p - blockStart
               IN  IF innerPos < 0 THEN [blockIndex |-> i, offset |-> 0]
                   ELSE innerLoop(block, i, innerPos, 0, 1)
          ELSE blockLoop(doc, p, running + nodeSize(block), i + 1)

computeBlockOffsetForAbsolutePos(editor, absPos) ==
    IF isFalsy(editor) THEN [blockIndex |-> 0, offset |-> 0]
    ELSE LET doc == editor
             p == Max(1, Min(absPos, contentSize(doc)))
         IN  blockLoop(doc, p, 1, 0)

-----------------------------------------------------------------------------
(* stores/projects: the project store.  A string is a sequence of          *)
(* characters; a value that may be null or undefined is <<>> when it is    *)
(* and <<x>> otherwise, as with Opt.                                       *)

\* some of the projects the store starts with
initialProjects ==
    << [id |-> <<"3", "2">>, name |-> <<"A", "c", "m", "e">>],
       [id |-> <<"4", "3">>, name |-> <<"A", "P">>] >>

\* a store whose value cannot be read: get(_projects) or list.find throws
Unavailable == <<[unavailable |-> TRUE]>>

\* a call that returned v, and a call that threw
Returned(v) == [thrown |-> FALSE, value |-> v]

Thrown == [thrown |-> TRUE]

\* JavaScript truthiness of a string that may be null or undefined
isTruthy(x) == x # <<>> /\ x[1] # <<>>

getProjectById(id) ==
    IF ~isTruthy(id) THEN Returned(<<>>)
    ELSE IF projects = Unavailable THEN Thrown
    ELSE LET found == SelectSeq(projects, LAMBDA p : p.id = id[1])
         IN  Returned(IF found = <<>> THEN <<>> ELSE <<found[1]>>)

getProjectName(id) ==
    LET p == getProjectById(id)
    IN  IF p.thrown THEN Thrown
        ELSE Returned(IF p.value = <<>> THEN <<>> ELSE <<p.value[1].name>>)

-----------------------------------------------------------------------------
(* nodes/ProjectChip: resolveLabel; utils/selection.ts:                    *)
(* getSelectedTextWithCustomNodes on the editor's document                 *)

\* '#' followed by a string
Hash(str) == <<"#">> \o str

\* resolveLabel without the try/catch around the store lookup
resolveLabelUncaught(projectId, projectName) ==
    LET name == getProjectName(projectId)
    IN  IF name.thrown THEN Thrown
        ELSE IF isTruthy(name.value) THEN Returned(Hash(name.value[1]))
        ELSE IF isTruthy(projectName) /\ Len(projectName[1]) > 0
        THEN Returned(Hash(projectName[1]))
        ELSE Returned(IF isTruthy(projectId) THEN Hash(projectId[1])
                      ELSE Hash(<<"P", "r", "o", "j", "e", "c", "t">>))

resolveLabel(projectId, projectName) ==
    LET name == getProjectName(projectId)
    IN  IF ~name.thrown /\ isTruthy(name.value) THEN Returned(Hash(name.value[1]))
        ELSE IF isTruthy(projectName) /\ Len(projectName[1]) > 0
        THEN Returned(Hash(projectName[1]))
        ELSE Returned(IF isTruthy(projectId) THEN Hash(projectId[1])
                      ELSE Hash(<<"P", "r", "o", "j", "e", "c", "t">>))

\* node.attrs?.key ?? null
attrOrNull(node, key) ==
    IF Has(node, "attrs") /\ \E kv \in node.attrs : kv.k = key
    THEN <<(CHOOSE kv \in node.attrs : kv.k = key).v.x>>
    ELSE <<>>

\* node.isBlock: the schema's blocks are paragraphs
isBlock(node) == node.type = "paragraph"

\* node.nodeSize of any node of the editor's document
pmNodeSize(node) == IF isBlock(node) THEN nodeSize(node) ELSE _childTextLength(node)

\* node.content.size
pmContentSize(node) == IF isBlock(node) THEN nodeSize(node) - 2 ELSE 0

\* the callback given to doc.nodesBetween, lines 22-44; st holds the
\* variables it closes over and, in `parts`, what each call appended
visitNode(node, p, st) ==
    LET sep == IF isBlock(node) /\ node.type # "doc" /\ ~st.isFirstBlock /\ Len(st.result) > 0
               THEN <<"\n">> ELSE <<>>
        first == IF isBlock(node) /\ node.type # "doc" THEN FALSE ELSE st.isFirstBlock
        nodeFrom == Max(st.from, p)
        nodeTo == Min(st.to, p + pmNodeSize(node))
        label == resolveLabel(attrOrNull(node, "projectId"), attrOrNull(node, "projectName"))
        added == IF isText(node)
                 THEN (IF nodeTo > nodeFrom
                       THEN SubSeq(node.text, nodeFrom - p + 1, nodeTo - p) ELSE <<>>)
                 ELSE IF node.type = "projectChip" /\ p >= st.from /\ p < st.to
                 THEN (IF label.thrown THEN <<>> ELSE label.value)
                 ELSE <<>>
    IN  [st EXCEPT !.result = st.result \o sep \o added,
                   !.isFirstBlock = first,
                   !.thrown = st.thrown \/ (~isText(node) /\ node.type = "projectChip"
                                              /\ p >= st.from /\ p < st.to /\ label.thrown),
                   !.parts = Append(st.parts, [pos |-> p, type |-> node.type,
                                               sep |-> sep, added |-> added])]

RECURSIVE nodesBetween(_, _, _, _, _, _, _)
\* Fragment.nodesBetween(from, to, f, nodeStart) from child i (1-based) at
\* fragment offset p: f is called on every child that overlaps the range,
\* then on the children of that child
nodesBetween(content, from, to, nodeStart, i, p, st) ==
    IF ~(p < to) THEN st
    ELSE
      LET child == content[i]
          end == p + pmNodeSize(child)
          start == p + 1
          st1 == visitNode(child, nodeStart + p, st)
          st2 == IF pmContentSize(child) > 0
                 THEN nodesBetween(child.content, Max(0, from - start),
                                   Min(pmContentSize(child), to - start),
                                   nodeStart + start, 1, 0, st1)
                 ELSE st1
      IN  nodesBetween(content, from, to, nodeStart, i + 1, end,
                       IF end > from THEN st2 ELSE st)

getSelectedTextWithCustomNodes(editor, from, to) ==
    IF isFalsy(editor) THEN [result |-> <<>>, parts |-> <<>>, thrown |-> FALSE]
    ELSE LET st == nodesBetween(editor.content, from, to, 0, 1, 0,
                                [result |-> <<>>, isFirstBlock |-> TRUE, from |-> from,
                                 to |-> to, parts |-> <<>>, thrown |-> FALSE])
         IN  [result |-> st.result, parts |-> st.parts, thrown |-> st.thrown]

-----------------------------------------------------------------------------
(* Object identity: what the caller's documents are after a call           *)

RECURSIVE Value(_)
\* the JSON a value stands for, whoever owns its objects
Value(v) ==
    [k \in DOMAIN v \ {"ref"} |->
        IF k = "content"
        THEN [i \in DOMAIN v.content |-> Value(v.content[i])]
        ELSE v[k]]

RECURSIVE Alloc(_, _, _)
\* the caller takes hold of v: objects that have no identity yet get one
Alloc(v, r, step) ==
    [k \in DOMAIN v \cup {"ref"} |->
        IF k = "ref" THEN (IF Has(v, "ref") THEN v.ref ELSE r)
        ELSE IF k = "content"
        THEN [i \in DOMAIN v.content |-> Alloc(v.content[i], r + i * step, step \div 10)]
        ELSE v[k]]

\* a document the caller holds: blocks and inline nodes have identities,
\* the root is only ever read
Hold(d, base) ==
    IF Has(d, "content")
    THEN With(d, "content",
              [i \in DOMAIN d.content |-> Alloc(d.content[i], base * 10000 + i * 100, 10)])
    ELSE d

RECURSIVE RefNodes(_)
\* the objects inside v that the caller holds too
RefNodes(v) ==
    (IF Has(v, "ref") THEN {v} ELSE {})
    \cup (IF Has(v, "content")
          THEN UNION {RefNodes(v.content[i]) : i \in DOMAIN v.content}
          ELSE {})

RECURSIVE AfterCall(_, _)
\* the state of the caller's value v once the call has left the shared
\* objects `shared` as they are
AfterCall(v, shared) ==
    IF Has(v, "ref") /\ \E m \in shared : m.ref = v.ref
    THEN CHOOSE m \in shared : m.ref = v.ref
    ELSE IF Has(v, "content")
    THEN With(v, "content", [i \in DOMAIN v.content |-> AfterCall(v.content[i], shared)])
    ELSE v

-----------------------------------------------------------------------------
(* The documents and positions the library is exercised on                 *)

MaxBlocks == 2      \* longest document, in blocks

PosSlack == 1       \* how far a coordinate may lie outside its valid range

Prim(x) == [t |-> "prim", x |-> x]

Obj(x) == [t |-> "obj", x |-> x]

Bold == [type |-> "bold"]

Italic == [type |-> "italic"]

Link == [type |-> "link", attrs |-> {[k |-> "href", v |-> Prim("u")]}]

LinkData == [type |-> "link", attrs |-> {[k |-> "data", v |-> Obj("o")]}]

T(chars) == [type |-> "text", text |-> chars]

Tm(chars, marks) == [type |-> "text", text |-> chars, marks |-> marks]

Chip == [type |-> "projectChip", attrs |-> {[k |-> "projectId", v |-> Prim("42")]}]

Span(content) == [type |-> "span", content |-> content]

P(content) == [type |-> "paragraph", content |-> content]

Heading(level, content) ==
    [type |-> "heading", attrs |-> {[k |-> "level", v |-> Prim(level)]}, content |-> content]

PEmpty == P(<<>>)

PPlain == P(<<T(<<"a", "b">>)>>)

PChip == P(<<T(<<"a", "b">>), Chip, T(<<"c", "d">>)>>)

PBoldPair == P(<<Tm(<<"e", "f">>, <<Bold>>), Tm(<<"y">>, <<Bold>>)>>)

PMeta == [type |-> "paragraph", attrs |-> {[k |-> "meta", v |-> Obj("m")]},
          content |-> <<T(<<"g">>)>>]

H1 == Heading("1", <<Tm(<<"h", "i">>, <<Bold>>)>>)

\* blocks that also appear in documents of several blocks
CorePool == {PEmpty, PPlain, PChip, PBoldPair, PMeta, H1}

BlockPool ==
    CorePool \cup
    { [type |-> "paragraph"],
      [type |-> "paragraph", attrs |-> {}, content |-> <<T(<<"j">>)>>],
      Heading("2", <<T(<<"k">>)>>),
      P(<<Tm(<<"l", "m">>, <<Bold, Italic>>), Tm(<<"n">>, <<Italic, Bold>>)>>),
      P(<<T(<<"o">>), Tm(<<"p">>, <<>>)>>),
      P(<<Chip, Chip>>),
      P(<<Tm(<<"q", "r">>, <<LinkData>>)>>),
      P(<<Tm(<<"s">>, <<Link>>), Tm(<<"t">>, <<Link>>), Chip>>),
      P(<<Span(<<T(<<"u">>)>>), Span(<<T(<<"v">>), T(<<"w">>)>>)>>) }

SeqsOf(S, n) == UNION {[1..m -> S] : m \in 0..n}

\* well-formed documents: any one block, or up to MaxBlocks core blocks
Docs ==
    {[type |-> "doc", content |-> c] :
        c \in {<<blk>> : blk \in BlockPool} \cup SeqsOf(CorePool, MaxBlocks)}

\* malformed documents: null/undefined, no content array, wrong root type
Malformed ==
    { Nullish,
      [type |-> "doc"],
      [type |-> "paragraph", content |-> <<T(<<"x">>)>>],
      [type |-> "paragraph", content |-> <<PPlain>>] }

MaxBlockLength(d) ==
    LET ls == {0} \cup {blockLength(d.content[i]) : i \in DOMAIN d.content}
    IN  CHOOSE m \in ls : \A l \in ls : l <= m

AbsPositions(d) ==
    {[abs |-> p] : p \in (0 - PosSlack)..(computeBlockLengths(d).total + PosSlack)}

PairPositions(d) ==
    {[blockIndex |-> i, offset |-> o] :
        i \in (0 - PosSlack)..(Len(d.content) - 1 + PosSlack),
        o \in (0 - PosSlack)..(MaxBlockLength(d) + PosSlack)}

\* a pair that addresses a block of the document and an offset inside it
ValidPair(d, q) ==
    /\ q.blockIndex >= 0 /\ q.blockIndex < Len(d.content)
    /\ q.offset >= 0 /\ q.offset <= blockLength(d.content[q.blockIndex + 1])

NoOut == [none |-> TRUE]

NoPos == [none |-> TRUE]

-----------------------------------------------------------------------------
(* editors.ts: the registry of focus functions                             *)

\* the ids editors are registered under; "" is the falsy id
EditorIds == {"", "a", "b"}

\* a focus function: what a call of it does
FocusFn(name, does) == [kind |-> "function", name |-> name, does |-> does]

\* new Map(): no id has a function
emptyRegistry == [id \in EditorIds |-> <<>>]

\* typeof fn === 'function'
isFunction(fn) == fn.kind = "function"

\* registerEditor(id, fn): the registry after it
registerEditor(reg, id, fn) ==
    IF id = "" THEN reg
    ELSE IF ~isFunction(fn) THEN reg
    ELSE [reg EXCEPT ![id] = <<fn>>]

\* unregisterEditor(id): the registry after it
unregisterEditor(reg, id) == [reg EXCEPT ![id] = <<>>]

\* clearEditors(): the registry after it
clearEditors(reg) == emptyRegistry

\* focusEditorById(id): what the promise resolves to, and the function it
\* invoked, if any
focusEditorById(reg, id) ==
    LET fn == reg[id]
    IN  IF fn = <<>> THEN [focused |-> FALSE, invoked |-> <<>>]
        ELSE IF fn[1].does = "returns" THEN [focused |-> TRUE, invoked |-> fn]
        ELSE [focused |-> FALSE, invoked |-> fn]

-----------------------------------------------------------------------------
(* workspace.ts: the blocks store and the render list derived from it.     *)
(* A date is a day number; a content is the text of the block, a sequence  *)
(* of characters, as BlockElement handles it.  An id is a record: of a     *)
(* stored block, of an injected header, of a ghost.                        *)

Today == 0          \* new Date(): the day the view is computed on

DaysShown == 7      \* the view shows today and the six days after it

StoredId(n) == [kind |-> "stored", n |-> n]

NewId(n) == [kind |-> "new", n |-> n]

HeaderId(date) == [kind |-> "header", date |-> date]

GhostId(date) == [kind |-> "ghost", date |-> date]

Block(id, block_type, text, completed, date, agenda_order) ==
    [id |-> id, block_type |-> block_type, content |-> text,
     completed |-> completed, date |-> date, agenda_order |-> agenda_order]

\* blocks.set([...]): the seed, its dates counted from the first one
initialBlocks ==
    << Block(StoredId(1), "task", <<"S">>, FALSE, Today + 2, 0),
       Block(StoredId(2), "task", <<"T">>, FALSE, Today + 3, 0),
       Block(StoredId(3), "task", <<"D">>, FALSE, Today, 0),
       Block(StoredId(4), "task", <<"O">>, FALSE, Today, 1),
       Block(StoredId(5), "header", <<"M">>, FALSE, Today + 7, 0 - 1) >>

\* { ...oldBlock, ...newData }
Spread(oldBlock, newData) ==
    [k \in DOMAIN oldBlock \cup DOMAIN newData |->
        IF k \in DOMAIN newData THEN newData[k] ELSE oldBlock[k]]

\* updateBlock(block, newData): the store after it
updateBlock(bs, item, newData) ==
    IF item.type # "block" THEN bs
    ELSE [i \in DOMAIN bs |->
             IF item.id = bs[i].id THEN Spread(bs[i], newData) ELSE bs[i]]

\* the first update of createBlock
shiftOrders(bs, newBlock) ==
    [i \in DOMAIN bs |->
        IF bs[i].date = newBlock.date /\ bs[i].agenda_order >= newBlock.agenda_order
        THEN [bs[i] EXCEPT !.agenda_order = @ + 1]
        ELSE bs[i]]

\* createBlock moving only the blocks after the requested order
storeCreateBlockAfter(bs, newBlock) ==
    Append([i \in DOMAIN bs |->
               IF bs[i].date = newBlock.date /\ bs[i].agenda_order > newBlock.agenda_order
               THEN [bs[i] EXCEPT !.agenda_order = @ + 1]
               ELSE bs[i]],
           newBlock)

\* createBlock(newBlock) of the store: the store after it
storeCreateBlock(bs, newBlock) == Append(shiftOrders(bs, newBlock), newBlock)

\* deleteBlock(deletedBlockId): the store after it
deleteBlock(bs, deletedBlockId) ==
    LET keep(b) == b.id # deletedBlockId IN SelectSeq(bs, keep)

\* the comparator of the sort: date, then agenda_order
sortsBefore(a, b) ==
    IF a.date # b.date THEN a.date < b.date ELSE a.agenda_order < b.agenda_order

RECURSIVE insertSorted(_, _)
insertSorted(sorted, b) ==
    IF sorted = <<>> THEN <<b>>
    ELSE IF sortsBefore(b, Head(sorted)) THEN <<b>> \o sorted
    ELSE <<Head(sorted)>> \o insertSorted(Tail(sorted), b)

RECURSIVE sortedBlocks(_)
\* [...$blocks].sort(...): a stable sort
sortedBlocks(bs) ==
    IF bs = <<>> THEN <<>>
    ELSE insertSorted(sortedBlocks(SubSeq(bs, 1, Len(bs) - 1)), bs[Len(bs)])

\* renderList.push numbering from one
pushItemFromOne(renderList, item) ==
    Append(renderList, With(item, "index", Len(renderList) + 1))

\* renderList.push({ ...item, index: renderList.length })
pushItem(renderList, item) ==
    Append(renderList, With(item, "index", Len(renderList)))

RECURSIVE pushBlocks(_, _)
\* forEach((block) => renderList.push({ ...block, type: 'block', index }))
pushBlocks(renderList, bs) ==
    IF bs = <<>> THEN renderList
    ELSE pushBlocks(pushItem(renderList, With(Head(bs), "type", "block")), Tail(bs))

injectedHeader(date) ==
    [id |-> HeaderId(date), type |-> "block", content |-> <<>>, date |-> date,
     agenda_order |-> 0 - 1, block_type |-> "header", completed |-> FALSE]

\* the body of dates.forEach for one date
pushDate(renderList, upcomingBlocks, date) ==
    LET hasHeaderBlock ==
            \E i \in DOMAIN upcomingBlocks :
                upcomingBlocks[i].date = date /\ upcomingBlocks[i].agenda_order = 0 - 1
        withHeader == IF hasHeaderBlock THEN renderList
                      ELSE pushItem(renderList, injectedHeader(date))
        onDate(b) == b.date = date
        dayBlocks == SelectSeq(upcomingBlocks, onDate)
    IN  pushItem(pushBlocks(withHeader, dayBlocks),
                 [id |-> GhostId(date), type |-> "ghost", date |-> date])

RECURSIVE pushDates(_, _, _)
pushDates(renderList, upcomingBlocks, dates) ==
    IF dates = <<>> THEN renderList
    ELSE pushDates(pushDate(renderList, upcomingBlocks, Head(dates)),
                   upcomingBlocks, Tail(dates))

\* documentView: the render list of a value of the store
documentView(bs) ==
    LET dates == [i \in 1..DaysShown |-> Today + (i - 1)]
        sorted == sortedBlocks(bs)
        isOverdue(b) == b.date < dates[1] /\ b.block_type = "task" /\ ~b.completed
        isUpcoming(b) == b.date >= dates[1]
        overdueBlocks == SelectSeq(sorted, isOverdue)
        upcomingBlocks == SelectSeq(sorted, isUpcoming)
        overdueSection ==
            IF Len(overdueBlocks) > 0
            THEN pushBlocks(<<[type |-> "overdue", id |-> [kind |-> "header-overdue"],
                               index |-> 0, content |-> <<"O">>]>>,
                            overdueBlocks)
            ELSE <<>>
    IN  pushDates(overdueSection, upcomingBlocks, dates)

-----------------------------------------------------------------------------
(* BlockElement.svelte: the keyboard of a rendered item.  left and right   *)
(* are the texts before and after the cursor.                              *)

\* list[index] of a 0-based index: the item, if there is one
ItemAt(list, index) == IF index + 1 \in DOMAIN list THEN <<list[index + 1]>> ELSE <<>>

\* Enter: the store after the listener
pressEnter(bs, block, left, right, newId) ==
    LET nextBlock == ItemAt(documentView(bs), block.index + 1)
    IN  IF /\ Len(right) = 0
           /\ nextBlock # <<>>
           /\ (nextBlock[1].type = "ghost" \/ block.type = "ghost")
        THEN bs
        ELSE IF block.type # "block" THEN bs
        ELSE storeCreateBlock(
                 updateBlock(bs, block, [content |-> left]),
                 Block(newId, "task", right, FALSE, block.date, block.agenda_order + 1))

\* Backspace: the store after the listener
pressBackspace(bs, block, left, right) ==
    IF Len(left) > 0 THEN bs
    ELSE IF Len(right) > 0 /\ block.index = 1 THEN bs
    ELSE LET deleted == deleteBlock(bs, block.id)
             prevBlock == ItemAt(documentView(deleted), block.index - 1)
         IN  IF prevBlock # <<>> /\ prevBlock[1].type = "block"
             THEN updateBlock(deleted, prevBlock[1],
                              [content |-> prevBlock[1].content \o right])
             ELSE deleted

-----------------------------------------------------------------------------
(* The application state while only the document library is exercised      *)

InitApp ==
    /\ selection = 1
    /\ docC = Nullish
    /\ registry = emptyRegistry
    /\ blocksStore = initialBlocks
    /\ boundContent = EmptyDoc
    /\ editorDoc = EmptyDoc
    /\ debounceTimer = <<>>
    /\ effectDirty = FALSE
    /\ isVisible = FALSE
    /\ suppressCheckAndShow = FALSE
    /\ timers = {}
    /\ now = 0

-----------------------------------------------------------------------------
(* The caller                                                              *)

\* every caller-held object that the values returned still contain
Shared(result) == UNION {RefNodes(result[k]) : k \in DOMAIN result}

CallerDoc(d, result) ==
    IF Has(d, "content")
    THEN With(d, "content",
              [i \in DOMAIN d.content |-> AfterCall(d.content[i], Shared(result))])
    ELSE d

InitMerge ==
    /\ pc = "ready"
    /\ \E a \in Docs \cup Malformed, b \in Docs \cup Malformed :
         /\ docA = Hold(a, 1)
         /\ docB = Hold(b, 2)
    /\ pos = NoPos
    /\ out = NoOut
    /\ snap = [a |-> docA, b |-> docB]
    /\ calls = 0
    /\ projects = initialProjects
    /\ InitApp

\* merged = mergeDocuments(docA, docB)
CallMerge ==
    /\ pc = "ready"
    /\ LET result == [merged |-> mergeDocuments(docA, docB)]
       IN  /\ out' = result
           /\ docA' = CallerDoc(docA, result)
           /\ docB' = CallerDoc(docB, result)
    /\ pc' = "merged"
    /\ calls' = calls + 1
    /\ UNCHANGED <<pos, snap, projects>>
    /\ UNCHANGED appVars

NextMerge == CallMerge

SpecMerge == InitMerge /\ [][NextMerge]_vars

InitSplit ==
    /\ pc = "ready"
    /\ \/ \E d \in Docs :
            /\ docA = Hold(d, 1)
            /\ pos \in AbsPositions(d) \cup PairPositions(d)
       \/ /\ docA \in {Nullish, [type |-> "doc"]}
          /\ pos \in AbsPositions(EmptyDoc) \cup PairPositions(EmptyDoc)
    /\ docB = Nullish
    /\ out = NoOut
    /\ snap = [a |-> docA, b |-> docB]
    /\ calls = 0
    /\ projects = initialProjects
    /\ InitApp

\* {left, right} = splitDocumentAt(docA, p); the halves of the target block
\* are kept as splitBlockAtOffset returned them
SplitAt(p) ==
    /\ LET result == splitDocumentAt(docA, p)
           t == splitTarget(docA, p)
       IN  /\ out' = [left |-> result.left, right |-> result.right,
                      blockIndex |-> t.blockIndex, offset |-> t.offset,
                      halves |-> IF Len(t.blocks) = 0 THEN <<>>
                                 ELSE splitBlockAtOffset(t.blocks[t.blockIndex + 1], t.offset)]
           /\ docA' = CallerDoc(docA, result)
    /\ pc' = "split"
    /\ calls' = calls + 1

CallSplit ==
    /\ pc = "ready"
    /\ pos # NoPos
    /\ SplitAt(pos)
    /\ UNCHANGED <<docB, pos, snap, projects>>
    /\ UNCHANGED appVars

\* merged = mergeDocuments(left, right) on what the split returned
CallMergeBack ==
    /\ pc = "split"
    /\ LET result == [merged |-> mergeDocuments(out.left, out.right)]
       IN  /\ out' = [k \in DOMAIN out \cup {"merged"} |->
                         IF k = "merged" THEN result.merged ELSE out[k]]
           /\ docA' = CallerDoc(docA, result)
    /\ pc' = "rejoined"
    /\ calls' = calls + 1
    /\ UNCHANGED <<docB, pos, snap, projects>>
    /\ UNCHANGED appVars

NextSplit == CallSplit \/ CallMergeBack

SpecSplit == InitSplit /\ [][NextSplit]_vars

-----------------------------------------------------------------------------
(* The position mapper on the editor's document (SpecPos)                  *)

HasContainer(d) ==
    \E i \in DOMAIN d.content :
        \E j \in DOMAIN Content(d.content[i]) : Has(d.content[i].content[j], "content")

\* documents of the editor's schema: inline nodes are text runs and leaves
EditorDocs == {d \in Docs : ~HasContainer(d)}

EditorAbsPositions(d) ==
    {[abs |-> p] : p \in (0 - PosSlack)..(contentSize(d) + PosSlack)}

InitPos ==
    /\ pc = "ready"
    /\ \/ /\ docA \in EditorDocs
          /\ pos \in EditorAbsPositions(docA) \cup PairPositions(docA)
       \/ /\ docA = Nullish
          /\ pos \in {[abs |-> 1], [blockIndex |-> 0, offset |-> 1]}
    /\ docB = Nullish
    /\ out = NoOut
    /\ snap = [a |-> docA, b |-> docB]
    /\ calls = 0
    /\ projects = initialProjects
    /\ InitApp

\* blockOffset = computeBlockOffsetForAbsolutePos(editor, pos)
MapToBlockOffset ==
    /\ pc = "ready"
    /\ isNumber(pos)
    /\ out' = [blockOffset |-> computeBlockOffsetForAbsolutePos(docA, pos.abs)]
    /\ pc' = "mapped"
    /\ calls' = calls + 1
    /\ UNCHANGED <<docA, docB, pos, snap, projects>>
    /\ UNCHANGED appVars

\* abs = computeAbsolutePosForBlockOffset(editor, blockIndex, offset) on the
\* pair computeBlockOffsetForAbsolutePos returned
MapBack ==
    /\ pc = "mapped"
    /\ out' = [blockOffset |-> out.blockOffset,
               abs |-> computeAbsolutePosForBlockOffset(
                          docA, out.blockOffset.blockIndex, out.blockOffset.offset)]
    /\ pc' = "back"
    /\ calls' = calls + 1
    /\ UNCHANGED <<docA, docB, pos, snap, projects>>
    /\ UNCHANGED appVars

\* abs = computeAbsolutePosForBlockOffset(editor, pos.blockIndex, pos.offset)
MapToAbsolute ==
    /\ pc = "ready"
    /\ ~isNumber(pos)
    /\ out' = [abs |-> computeAbsolutePosForBlockOffset(docA, pos.blockIndex, pos.offset)]
    /\ pc' = "converted"
    /\ calls' = calls + 1
    /\ UNCHANGED <<docA, docB, pos, snap, projects>>
    /\ UNCHANGED appVars

NextPos == MapToBlockOffset \/ MapBack \/ MapToAbsolute

SpecPos == InitPos /\ [][NextPos]_vars

-----------------------------------------------------------------------------
(* A caller that keeps its documents across calls and passes results back  *)
(* in (SpecFrame)                                                          *)

MaxCalls == 2       \* calls one behaviour makes

FrameDocs ==
    {[type |-> "doc", content |-> c] :
        c \in {<<>>, <<PPlain>>, <<PBoldPair>>, <<PChip, PPlain>>}}

FramePositions(d) == {[abs |-> p] : p \in 0..computeBlockLengths(d).total}

InitFrame ==
    /\ pc = "ready"
    /\ \E a \in FrameDocs, b \in FrameDocs :
         /\ docA = Hold(a, 1)
         /\ docB = Hold(b, 2)
    /\ pos = NoPos
    /\ out = NoOut
    /\ snap = [a |-> docA, b |-> docB]
    /\ calls = 0
    /\ projects = initialProjects
    /\ InitApp

FrameMerge == calls < MaxCalls /\ CallMerge

FrameSplit ==
    /\ calls < MaxCalls
    /\ pc = "ready"
    /\ \E p \in FramePositions(docA) : pos' = p /\ SplitAt(p)
    /\ UNCHANGED <<docB, snap, projects>>
    /\ UNCHANGED appVars

\* the caller keeps a returned document as its docA or docB
Retain ==
    /\ pc \in {"merged", "split"}
    /\ \E k \in DOMAIN out \cap {"merged", "left", "right"} :
         \/ /\ docA' = Hold(out[k], 2 * calls + 1)
            /\ docB' = docB
         \/ /\ docB' = Hold(out[k], 2 * calls + 2)
            /\ docA' = docA
    /\ snap' = [a |-> docA', b |-> docB']
    /\ pc' = "ready"
    /\ out' = NoOut
    /\ pos' = NoPos
    /\ UNCHANGED <<calls, projects>>
    /\ UNCHANGED appVars

NextFrame == FrameMerge \/ FrameSplit \/ Retain

SpecFrame == InitFrame /\ [][NextFrame]_vars

-----------------------------------------------------------------------------
(* A document merged with the empty document, the result put back and      *)
(* merged with the empty document again (SpecEmpty)                        *)

InitEmpty ==
    /\ pc = "ready"
    /\ \E d \in Docs :
         \/ docA = Hold(d, 1) /\ docB = EmptyDoc
         \/ docA = EmptyDoc /\ docB = Hold(d, 2)
    /\ pos = NoPos
    /\ out = NoOut
    /\ snap = [a |-> docA, b |-> docB]
    /\ calls = 0
    /\ projects = initialProjects
    /\ InitApp

\* contentA = JSON.parse(JSON.stringify(mergedContent)); contentB = empty
replaceAWithMerged ==
    /\ pc = "merged"
    /\ calls < MaxCalls
    /\ docA' = Hold(deepClone(out.merged), 2 * calls + 1)
    /\ docB' = EmptyDoc
    /\ snap' = [a |-> docA', b |-> docB']
    /\ pc' = "ready"
    /\ UNCHANGED <<pos, out, calls, projects>>
    /\ UNCHANGED appVars

NextEmpty == CallMerge \/ replaceAWithMerged

SpecEmpty == InitEmpty /\ [][NextEmpty]_vars

-----------------------------------------------------------------------------
(* A selection of the editor's document turned into text, and a label      *)
(* resolved for a project chip (SpecExtract)                               *)

HardBreak == [type |-> "hardBreak"]

\* a projectChip node with the attrs given, a null attr being left out
ProjectChip(projectId, projectName) ==
    [type |-> "projectChip",
     attrs |-> {[k |-> "projectId", v |-> Prim(projectId[1])] : x \in {1 : y \in DOMAIN projectId}}
               \cup {[k |-> "projectName", v |-> Prim(projectName[1])] :
                        x \in {1 : y \in DOMAIN projectName}}]

\* ids and baked-in names of chips: null, empty, known to the store or not
ProjectIds == {<<>>, <<<<>>>>, <<<<"4", "3">>>>, <<<<"7">>>>}

ProjectNames == {<<>>, <<<<>>>>, <<<<"N">>>>}

\* values of the store: the initial one, no projects, a project that was
\* given an empty name, and a store that cannot be read
ProjectStores ==
    { initialProjects, <<>>, <<[id |-> <<"4", "3">>, name |-> <<>>]>>, Unavailable }

ExtractPool ==
    { PEmpty, PPlain,
      P(<<T(<<"a", "b">>), ProjectChip(<<<<"4", "3">>>>, <<>>), T(<<"c", "d">>)>>),
      P(<<T(<<"e">>), HardBreak, T(<<"f">>)>>),
      P(<<ProjectChip(<<<<"7">>>>, <<<<"N">>>>)>>),
      P(<<ProjectChip(<<>>, <<>>), Tm(<<"g">>, <<Bold>>)>>) }

\* the editor's schema is "block+": a document has at least one block
ExtractDocs ==
    {[type |-> "doc", content |-> c] : c \in SeqsOf(ExtractPool, MaxBlocks) \ {<<>>}}

\* selections: from <= to, both in the document
Ranges(d) ==
    {r \in {[from |-> f, to |-> t] : f \in 0..contentSize(d), t \in 0..contentSize(d)} :
        r.from <= r.to}

InitExtract ==
    /\ pc = "ready"
    /\ \/ docA \in ExtractDocs /\ pos \in Ranges(docA)
       \/ docA = Nullish /\ pos = [from |-> 0, to |-> 0]
    /\ docB = Nullish
    /\ out = NoOut
    /\ snap = [a |-> docA, b |-> docB]
    /\ calls = 0
    /\ projects \in ProjectStores
    /\ InitApp

\* text = getSelectedTextWithCustomNodes(editor, from, to)
GetSelectedText ==
    /\ pc = "ready"
    /\ out' = getSelectedTextWithCustomNodes(docA, pos.from, pos.to)
    /\ pc' = "extracted"
    /\ calls' = calls + 1
    /\ UNCHANGED <<docA, docB, pos, snap, projects>>
    /\ UNCHANGED appVars

\* label = resolveLabel(projectId, projectName)
ResolveLabel ==
    /\ pc = "ready"
    /\ \E projectId \in ProjectIds, projectName \in ProjectNames :
         out' = [label |-> resolveLabel(projectId, projectName),
                 projectId |-> projectId, projectName |-> projectName]
    /\ pc' = "labelled"
    /\ calls' = calls + 1
    /\ UNCHANGED <<docA, docB, pos, snap, projects>>
    /\ UNCHANGED appVars

NextExtract == GetSelectedText \/ ResolveLabel

SpecExtract == InitExtract /\ [][NextExtract]_vars

-----------------------------------------------------------------------------
(* api/content.ts: insertAt on the editor's document (SpecInsert)          *)

RECURSIVE insertInline(_, _, _)
\* inline content with the text `chars` put in at in-block offset o
insertInline(content, o, chars) ==
    IF content = <<>> THEN <<T(chars)>>
    ELSE LET n == Head(content) IN
         IF isText(n) /\ o <= Len(n.text)
         THEN <<With(n, "text", SubSeq(n.text, 1, o) \o chars
                                \o SubSeq(n.text, o + 1, Len(n.text)))>> \o Tail(content)
         ELSE IF ~isText(n) /\ o = 0 THEN <<T(chars)>> \o content
         ELSE <<n>> \o insertInline(Tail(content), o - _childTextLength(n), chars)

\* the block (1-based) whose content holds the position p of the document
blockAtPos(doc, p) ==
    CHOOSE b \in DOMAIN doc.content :
        p >= 1 + sizeBefore(doc, b - 1) /\ p <= sizeBefore(doc, b) - 1

\* editor.commands.insertContentAt(p, text): the document with the text put
\* in at position p, a position inside a block
insertContentAt(doc, p, chars) ==
    LET b == blockAtPos(doc, p)
        block == doc.content[b]
    IN  With(doc, "content",
             [doc.content EXCEPT ![b] =
                 With(block, "content",
                      insertInline(Content(block), p - (1 + sizeBefore(doc, b - 1)), chars))])

\* editor.commands.insertContent(text): at the cursor
insertContent(doc, chars) == insertContentAt(doc, selection, chars)

\* insertText of the content API, the editor given: what it returns, the
\* editor's document and the cursor after it
insertText(doc, text) ==
    IF isFalsy(doc) THEN [ok |-> FALSE, doc |-> doc, selection |-> selection]
    ELSE [ok |-> TRUE, doc |-> insertContent(doc, text),
          selection |-> selection + Len(text)]

\* insertAt of the content API
insertAt(doc, position, content) ==
    IF isFalsy(doc) THEN [ok |-> FALSE, doc |-> doc, selection |-> selection]
    ELSE IF isNumber(position)
    THEN [ok |-> TRUE, doc |-> insertContentAt(doc, position.abs + 1, content),
          selection |-> position.abs + 1 + Len(content)]
    ELSE insertText(doc, content)

\* the positions of a document at which a cursor can be
CursorPositions(d) ==
    {p \in 1..contentSize(d) :
        \E b \in DOMAIN d.content :
            p >= 1 + sizeBefore(d, b - 1) /\ p <= sizeBefore(d, b) - 1}

InsertDocs ==
    {[type |-> "doc", content |-> c] :
        c \in SeqsOf({PEmpty, PPlain, PChip}, MaxBlocks) \ {<<>>}}

\* the positions insertAt is given: 0-based absolute numbers and pairs
InsertPositions(d) ==
    {[abs |-> p - 1] : p \in CursorPositions(d)}
       \cup {q \in PairPositions(d) : ValidPair(d, q)}

InitInsert ==
    /\ pc = "ready"
    /\ docA \in InsertDocs
    /\ pos \in InsertPositions(docA)
    /\ selection \in CursorPositions(docA)
    /\ docC = Nullish
    /\ registry = emptyRegistry
    /\ blocksStore = initialBlocks
    /\ boundContent = docA
    /\ editorDoc = docA
    /\ debounceTimer = <<>>
    /\ effectDirty = FALSE
    /\ isVisible = FALSE
    /\ suppressCheckAndShow = FALSE
    /\ timers = {}
    /\ now = 0
    /\ docB = Nullish
    /\ out = NoOut
    /\ snap = [a |-> docA, b |-> docB]
    /\ calls = 0
    /\ projects = initialProjects

\* ok = api.content.insertAt(pos, 'X')
CallInsertAt ==
    /\ pc = "ready"
    /\ LET r == insertAt(docA, pos, <<"X">>)
       IN  /\ out' = [ok |-> r.ok]
           /\ docA' = r.doc
           /\ selection' = r.selection
    /\ pc' = "inserted"
    /\ calls' = calls + 1
    /\ UNCHANGED <<docB, pos, snap, projects>>
    /\ UNCHANGED <<docC, registry, blocksStore, editorVars, popupVars>>

NextInsert == CallInsertAt

SpecInsert == InitInsert /\ [][NextInsert]_vars

-----------------------------------------------------------------------------
(* SpecRegistry: components register and unregister focus functions and    *)
(* the application focuses editors by id.  snap is the log of the calls    *)
(* made on the registry.                                                   *)

MaxOps == 3         \* calls made on the registry in one behaviour

\* what is passed as a focus function: one that returns, one that throws,
\* an async one whose promise rejects, and a value that is no function
FocusFns ==
    {FocusFn("f", "returns"), FocusFn("g", "throws"), FocusFn("h", "rejects"),
     [kind |-> "object"]}

\* the application state the registry is exercised in
RegistryIdle ==
    /\ docA = EmptyDoc
    /\ docB = Nullish
    /\ pos = NoPos
    /\ projects = initialProjects
    /\ selection = 1
    /\ docC = Nullish
    /\ blocksStore = initialBlocks
    /\ boundContent = EmptyDoc
    /\ editorDoc = EmptyDoc
    /\ debounceTimer = <<>>
    /\ effectDirty = FALSE
    /\ isVisible = FALSE
    /\ suppressCheckAndShow = FALSE
    /\ timers = {}
    /\ now = 0

registryFrame ==
    <<docA, docB, pos, projects, selection, docC, blocksStore, editorVars, popupVars>>

InitRegistry ==
    /\ pc = "ready"
    /\ registry = emptyRegistry
    /\ out = NoOut
    /\ snap = <<>>
    /\ calls = 0
    /\ RegistryIdle

\* registerEditor(id, fn)
RegisterEditor ==
    /\ calls < MaxOps
    /\ \E id \in EditorIds, fn \in FocusFns :
         /\ registry' = registerEditor(registry, id, fn)
         /\ snap' = Append(snap, [op |-> "register", id |-> id, fn |-> fn])
    /\ pc' = "registered"
    /\ calls' = calls + 1
    /\ UNCHANGED out
    /\ UNCHANGED registryFrame

\* unregisterEditor(id)
UnregisterEditor ==
    /\ calls < MaxOps
    /\ \E id \in EditorIds :
         /\ registry' = unregisterEditor(registry, id)
         /\ snap' = Append(snap, [op |-> "unregister", id |-> id])
    /\ pc' = "unregistered"
    /\ calls' = calls + 1
    /\ UNCHANGED out
    /\ UNCHANGED registryFrame

\* clearEditors()
ClearEditors ==
    /\ calls < MaxOps
    /\ registry' = clearEditors(registry)
    /\ snap' = Append(snap, [op |-> "clear"])
    /\ pc' = "cleared"
    /\ calls' = calls + 1
    /\ UNCHANGED out
    /\ UNCHANGED registryFrame

\* focused = await focusEditorById(id)
FocusEditorById ==
    /\ calls < MaxOps
    /\ \E id \in EditorIds :
         LET r == focusEditorById(registry, id)
         IN  out' = [id |-> id, focused |-> r.focused, invoked |-> r.invoked,
                     log |-> snap]
    /\ pc' = "focused"
    /\ calls' = calls + 1
    /\ UNCHANGED <<registry, snap>>
    /\ UNCHANGED registryFrame

NextRegistry == RegisterEditor \/ UnregisterEditor \/ ClearEditors \/ FocusEditorById

SpecRegistry == InitRegistry /\ [][NextRegistry]_vars

-----------------------------------------------------------------------------
(* SpecAssoc: a caller merges three documents, first as (A B) C, then as   *)
(* A (B C).                                                                *)

MaxAssocBlocks == 2     \* blocks of a document merged with two others

AssocDocs ==
    {[type |-> "doc", content |-> c] : c \in SeqsOf({PEmpty, PPlain}, MaxAssocBlocks)}
       \cup {[type |-> "doc", content |-> <<blk>>] :
                blk \in {PBoldPair, H1, PMeta, [type |-> "paragraph"]}}
       \cup {Nullish}

assocFrame ==
    <<docA, docB, docC, pos, snap, projects, selection, registry, blocksStore,
      editorVars, popupVars>>

InitAssoc ==
    /\ pc = "ready"
    /\ docA \in AssocDocs
    /\ docB \in AssocDocs
    /\ docC \in AssocDocs
    /\ pos = NoPos
    /\ out = NoOut
    /\ snap = [a |-> docA, b |-> docB]
    /\ calls = 0
    /\ projects = initialProjects
    /\ selection = 1
    /\ registry = emptyRegistry
    /\ blocksStore = initialBlocks
    /\ boundContent = EmptyDoc
    /\ editorDoc = EmptyDoc
    /\ debounceTimer = <<>>
    /\ effectDirty = FALSE
    /\ isVisible = FALSE
    /\ suppressCheckAndShow = FALSE
    /\ timers = {}
    /\ now = 0

\* ab = mergeDocuments(A, B)
CallMergeAB ==
    /\ pc = "ready"
    /\ out' = [ab |-> mergeDocuments(docA, docB)]
    /\ pc' = "ab"
    /\ calls' = calls + 1
    /\ UNCHANGED assocFrame

\* left = mergeDocuments(ab, C)
CallMergeABWithC ==
    /\ pc = "ab"
    /\ out' = [ab |-> out.ab, left |-> mergeDocuments(out.ab, docC)]
    /\ pc' = "ab_c"
    /\ calls' = calls + 1
    /\ UNCHANGED assocFrame

\* bc = mergeDocuments(B, C)
CallMergeBC ==
    /\ pc = "ab_c"
    /\ out' = [ab |-> out.ab, left |-> out.left, bc |-> mergeDocuments(docB, docC)]
    /\ pc' = "bc"
    /\ calls' = calls + 1
    /\ UNCHANGED assocFrame

\* right = mergeDocuments(A, bc)
CallMergeAWithBC ==
    /\ pc = "bc"
    /\ out' = [ab |-> out.ab, left |-> out.left, bc |-> out.bc,
               right |-> mergeDocuments(docA, out.bc)]
    /\ pc' = "a_bc"
    /\ calls' = calls + 1
    /\ UNCHANGED assocFrame

NextAssoc == CallMergeAB \/ CallMergeABWithC \/ CallMergeBC \/ CallMergeAWithBC

SpecAssoc == InitAssoc /\ [][NextAssoc]_vars

-----------------------------------------------------------------------------
(* SpecEditor: the Editor component, mounted.  The user edits the          *)
(* document, the parent assigns the bound content, the debounce timer      *)
(* fires and the sync effect runs, in any order the scheduler allows.      *)
(* snap remembers the value the parent assigned while a timer was pending. *)

MaxEvents == 4      \* user edits and parent assignments in one behaviour

\* the documents the editor and its parent hold
ComponentDocs ==
    {[type |-> "doc", content |-> <<blk>>] : blk \in {PPlain, PChip, PBoldPair}}

NoRace == [raced |-> FALSE]

\* JSON.stringify(current) !== JSON.stringify(content)
stringifyDiffers(current, c) == deepClone(current) # deepClone(c)

\* the callback of the timer set by handleEditorUpdate: the bound content
\* after it
timerCallback(json) == deepClone(json)

\* the body of the sync effect: the editor's document after it
syncEffect(current, c) == IF stringifyDiffers(current, c) THEN c ELSE current

editorFrame ==
    <<docA, docB, docC, pos, out, projects, selection, registry, blocksStore, popupVars>>

\* after onMount: the editor holds `initial`, onCreate has called
\* handleEditorUpdate, the effect has still to run for the first time
InitEditor ==
    /\ pc = "mounted"
    /\ \E initial \in ComponentDocs :
         /\ boundContent = initial
         /\ editorDoc = initial
         /\ debounceTimer = <<initial>>
    /\ effectDirty = TRUE
    /\ snap = NoRace
    /\ calls = 0
    /\ docA = EmptyDoc
    /\ docB = Nullish
    /\ docC = Nullish
    /\ pos = NoPos
    /\ out = NoOut
    /\ projects = initialProjects
    /\ selection = 1
    /\ registry = emptyRegistry
    /\ blocksStore = initialBlocks
    /\ isVisible = FALSE
    /\ suppressCheckAndShow = FALSE
    /\ timers = {}
    /\ now = 0

\* the user changes the document; onUpdate calls handleEditorUpdate, which
\* clears the pending timer and sets one that captures the new JSON
UserEdit ==
    /\ calls < MaxEvents
    /\ \E d \in ComponentDocs \ {editorDoc} :
         /\ editorDoc' = d
         /\ debounceTimer' = <<d>>
    /\ snap' = NoRace
    /\ pc' = "edited"
    /\ calls' = calls + 1
    /\ UNCHANGED <<boundContent, effectDirty>>
    /\ UNCHANGED editorFrame

\* the parent assigns the bound content; the effect that read it is
\* scheduled
ParentAssign ==
    /\ calls < MaxEvents
    /\ \E v \in ComponentDocs \ {boundContent} :
         /\ boundContent' = v
         /\ snap' = IF debounceTimer # <<>> THEN [raced |-> TRUE, parent |-> v]
                    ELSE NoRace
    /\ effectDirty' = TRUE
    /\ pc' = "assigned"
    /\ calls' = calls + 1
    /\ UNCHANGED <<editorDoc, debounceTimer>>
    /\ UNCHANGED editorFrame

\* the debounce timer fires: content = deepClone(json), onChange, the timer
\* is gone; the assignment schedules the effect
TimerFires ==
    /\ debounceTimer # <<>>
    /\ boundContent' = timerCallback(debounceTimer[1])
    /\ debounceTimer' = <<>>
    /\ effectDirty' = TRUE
    /\ pc' = "fired"
    /\ UNCHANGED <<editorDoc, snap, calls>>
    /\ UNCHANGED editorFrame

\* the sync effect runs: setContent(content, false) when the editor's JSON
\* differs; no update event is emitted, so no timer is set
EffectRuns ==
    /\ effectDirty
    /\ editorDoc' = syncEffect(editorDoc, boundContent)
    /\ effectDirty' = FALSE
    /\ pc' = "synced"
    /\ UNCHANGED <<boundContent, debounceTimer, snap, calls>>
    /\ UNCHANGED editorFrame

NextEditor == UserEdit \/ ParentAssign \/ TimerFires \/ EffectRuns

SpecEditor == InitEditor /\ [][NextEditor]_vars

-----------------------------------------------------------------------------
(* SpecStore: the agenda.  Blocks are created and deleted through the      *)
(* store and by Enter and Backspace in the rendered items.  snap is the    *)
(* store as the last operation found it, out what the operation was given. *)

MaxStoreOps == 2    \* operations on the store in one behaviour

\* stores the agenda is exercised from: empty, two tasks today, a first
\* task tomorrow, a stored header and a task, an overdue section, the seed
StoreSamples ==
    { <<>>,
      << Block(StoredId(1), "task", <<"a", "b">>, FALSE, Today, 0),
         Block(StoredId(2), "task", <<"c">>, FALSE, Today, 1) >>,
      << Block(StoredId(1), "task", <<"a", "b">>, FALSE, Today + 1, 0) >>,
      << Block(StoredId(1), "task", <<"a", "b">>, FALSE, Today + 1, 0),
         Block(StoredId(2), "header", <<"h">>, FALSE, Today + 1, 0 - 1) >>,
      << Block(StoredId(1), "task", <<"c">>, FALSE, Today, 0),
         Block(StoredId(2), "task", <<"d">>, TRUE, Today - 1, 1),
         Block(StoredId(3), "task", <<"a", "b">>, FALSE, Today - 1, 0) >>,
      initialBlocks }

\* the blocks a caller of createBlock passes
NewBlocks(n) ==
    {Block(NewId(n), "task", <<"n">>, FALSE, date, agenda_order) :
        date \in {Today - 1, Today, Today + 1}, agenda_order \in {0 - 1, 0, 1}}

\* the rendered items that have a keyboard
KeyboardItems(bs) ==
    {item \in {documentView(bs)[i] : i \in DOMAIN documentView(bs)} :
        item.type # "overdue"}

\* the text of a rendered item's element
TextOf(item) == IF item.type = "block" THEN item.content ELSE <<>>

storeFrame ==
    <<docA, docB, docC, pos, projects, selection, registry, editorVars, popupVars>>

InitStore ==
    /\ pc = "ready"
    /\ blocksStore \in StoreSamples
    /\ snap = blocksStore
    /\ out = NoOut
    /\ calls = 0
    /\ docA = EmptyDoc
    /\ docB = Nullish
    /\ docC = Nullish
    /\ pos = NoPos
    /\ projects = initialProjects
    /\ selection = 1
    /\ registry = emptyRegistry
    /\ boundContent = EmptyDoc
    /\ editorDoc = EmptyDoc
    /\ debounceTimer = <<>>
    /\ effectDirty = FALSE
    /\ isVisible = FALSE
    /\ suppressCheckAndShow = FALSE
    /\ timers = {}
    /\ now = 0

\* createBlock(newBlock)
CreateBlock ==
    /\ calls < MaxStoreOps
    /\ \E newBlock \in NewBlocks(calls) :
         /\ blocksStore' = storeCreateBlock(blocksStore, newBlock)
         /\ out' = [newBlock |-> newBlock]
    /\ snap' = blocksStore
    /\ pc' = "created"
    /\ calls' = calls + 1
    /\ UNCHANGED storeFrame

\* deleteBlock(id)
DeleteBlock ==
    /\ calls < MaxStoreOps
    /\ \E i \in DOMAIN blocksStore :
         /\ blocksStore' = deleteBlock(blocksStore, blocksStore[i].id)
         /\ out' = [id |-> blocksStore[i].id]
    /\ snap' = blocksStore
    /\ pc' = "deleted"
    /\ calls' = calls + 1
    /\ UNCHANGED storeFrame

\* Enter in a rendered item, the cursor after k characters; snap is the
\* store as createBlock found it
PressEnter ==
    /\ calls < MaxStoreOps
    /\ \E block \in KeyboardItems(blocksStore) :
         \E k \in 0..Len(TextOf(block)) :
            LET left == SubSeq(TextOf(block), 1, k)
                right == SubSeq(TextOf(block), k + 1, Len(TextOf(block)))
            IN  /\ blocksStore' = pressEnter(blocksStore, block, left, right, NewId(calls))
                /\ out' = [block |-> block, left |-> left, right |-> right,
                           newBlock |-> Block(NewId(calls), "task", right, FALSE,
                                              IF Has(block, "date") THEN block.date ELSE Today,
                                              IF Has(block, "agenda_order")
                                              THEN block.agenda_order + 1 ELSE 0)]
                /\ snap' = updateBlock(blocksStore, block, [content |-> left])
    /\ pc' = "entered"
    /\ calls' = calls + 1
    /\ UNCHANGED storeFrame

\* Backspace in a rendered item, the cursor after k characters
PressBackspace ==
    /\ calls < MaxStoreOps
    /\ \E block \in KeyboardItems(blocksStore) :
         \E k \in 0..Len(TextOf(block)) :
            LET left == SubSeq(TextOf(block), 1, k)
                right == SubSeq(TextOf(block), k + 1, Len(TextOf(block)))
            IN  /\ blocksStore' = pressBackspace(blocksStore, block, left, right)
                /\ out' = [block |-> block, left |-> left, right |-> right]
    /\ snap' = blocksStore
    /\ pc' = "backspaced"
    /\ calls' = calls + 1
    /\ UNCHANGED storeFrame

NextStore == CreateBlock \/ DeleteBlock \/ PressEnter \/ PressBackspace

SpecStore == InitStore /\ [][NextStore]_vars

-----------------------------------------------------------------------------
(* Vocabulary of the properties                                            *)

\* the code's own normalization of a document, as a JSON value
Normalized(d) == normalizeInlineTextNodes(Value(d))

\* an atomic inline node: not a text run, and a leaf
IsAtomic(n) == ~isTextNode(n) /\ ~Has(n, "content")

RECURSIVE AtomsOfBlocks(_)
AtomsOfBlocks(blocks) ==
    IF blocks = <<>> THEN <<>>
    ELSE SelectSeq(Content(Head(blocks)), IsAtomic) \o AtomsOfBlocks(Tail(blocks))

\* the atomic inline nodes of a document, in document order
Atoms(d) == AtomsOfBlocks(Blocks(Value(d)))

WellFormed(d) == ~isFalsy(d) /\ d.type = "doc" /\ Has(d, "content")

\* structural equality of two optional attrs objects, an absent one being {}
attrsEqualDeep(a, b) ==
    LET aa == IF a = <<>> THEN {} ELSE a[1]
        bb == IF b = <<>> THEN {} ELSE b[1]
    IN  aa = bb

\* structural equality of the attrs of two nodes
SameAttrs(m, n) == attrsEqualDeep(Opt(m, "attrs"), Opt(n, "attrs"))

\* equality of two mark lists as sets, an absent list being the empty one
MarkSet(n) == IF Has(n, "marks") THEN {n.marks[i] : i \in DOMAIN n.marks} ELSE {}

NoEqualNeighbours(content) ==
    \A i \in 1..(Len(content) - 1) :
        ~(/\ isTextNode(content[i]) /\ isTextNode(content[i + 1])
          /\ MarkSet(content[i]) = MarkSet(content[i + 1]))

NormalizedDoc(d) == \A i \in DOMAIN d.content : NoEqualNeighbours(Content(d.content[i]))

\* a document with the empty content array given to every block that has
\* none: the inline content of such a block is empty either way
ContentFilled(d) ==
    With(d, "content",
         [i \in DOMAIN d.content |->
             IF Has(d.content[i], "content") THEN d.content[i]
             ELSE With(d.content[i], "content", <<>>)])

\* a position that lies in the document
ValidPos(d, p) ==
    IF isNumber(p)
    THEN p.abs >= 0 /\ p.abs <= computeBlockLengths(d).total
    ELSE /\ p.blockIndex >= 0 /\ p.blockIndex < Len(Blocks(d))
         /\ p.offset >= 0 /\ p.offset <= blockLength(d.content[p.blockIndex + 1])

\* the nearest valid position of a document that has blocks
ClampPos(d, p) ==
    IF isNumber(p)
    THEN [abs |-> Max(0, Min(p.abs, computeBlockLengths(d).total))]
    ELSE LET bi == Max(0, Min(p.blockIndex, Len(Blocks(d)) - 1))
         IN  [blockIndex |-> bi,
              offset |-> Max(0, Min(p.offset, blockLength(d.content[bi + 1])))]

\* the text run of `content` that in-block offset o falls strictly inside, if any
RECURSIVE RunAround(_, _)
RunAround(content, o) ==
    IF content = <<>> \/ o <= 0 THEN <<>>
    ELSE LET l == IF isTextNode(Head(content)) THEN Len(Head(content).text) ELSE 1
         IN  IF o < l THEN <<Head(content)>>
             ELSE RunAround(Tail(content), o - l)

\* the run the last split cut in two, if it cut one
CutRun == RunAround(Content(Value(snap.a).content[out.blockIndex + 1]), out.offset)

-----------------------------------------------------------------------------
(* Properties of splitDocumentAt (SpecSplit)                               *)

\* C1: for every document D and every valid position p, merging the two
\* results of splitDocumentAt(D, p) gives the normalized form of D.
C1_SplitMergeIdentity ==
    (pc = "rejoined" /\ WellFormed(snap.a) /\ ValidPos(snap.a, pos)) =>
        ContentFilled(out.merged) = ContentFilled(Normalized(snap.a))

\* C3: whatever the position, in range or not, the atomic inline nodes of
\* the left result followed by those of the right result are the atomic
\* inline nodes of the input, each once, type and attrs unchanged.
C3_AtomicIndivisible ==
    pc = "split" => Atoms(out.left) \o Atoms(out.right) = Atoms(snap.a)

C3_Witness ==
    /\ pc = "split"
    /\ Atoms(out.left) # <<>> /\ Atoms(out.right) # <<>>
    /\ ~ValidPos(snap.a, pos)

\* C5: a split at an offset strictly inside a text run gives a last run on
\* the left and a first run on the right that both carry the marks of the
\* run that was cut, with texts that concatenate to its text; no half of
\* the block holds an empty run.
C5_MarksPreserved ==
    (pc = "split" /\ out.halves # <<>>) =>
        LET l == out.halves[1].content
            r == out.halves[2].content
        IN  /\ \A i \in DOMAIN l : isTextNode(l[i]) => Len(l[i].text) > 0
            /\ \A i \in DOMAIN r : isTextNode(r[i]) => Len(r[i].text) > 0
            /\ CutRun # <<>> =>
                 /\ l # <<>> /\ r # <<>>
                 /\ isTextNode(l[Len(l)]) /\ isTextNode(r[1])
                 /\ Opt(l[Len(l)], "marks") = Opt(CutRun[1], "marks")
                 /\ Opt(r[1], "marks") = Opt(CutRun[1], "marks")
                 /\ l[Len(l)].text \o r[1].text = CutRun[1].text

C5_Witness ==
    /\ pc = "split" /\ out.halves # <<>>
    /\ CutRun # <<>> /\ Has(CutRun[1], "marks") /\ Len(CutRun[1].marks) = 2

\* C10: on a document that has blocks, a split at an out-of-range coordinate
\* returns what the split at the nearest valid coordinate returns: a block
\* index below 0 as 0, past the last as the last, an offset below 0 as 0,
\* past the block's length as the length, an absolute position below 0 as 0,
\* past the total length as the total length.
C10_SplitClamps ==
    (pc = "split" /\ Len(Blocks(snap.a)) > 0) =>
        LET r == splitDocumentAt(Value(snap.a), ClampPos(snap.a, pos))
        IN  out.left = r.left /\ out.right = r.right


\* the block the last split cut, as the caller passed it
CutBlock == Value(snap.a).content[out.blockIndex + 1]

\* the in-block offset k at which the inline node number j of `content` starts
OffsetOf(content, j) == inlineLength(SubSeq(content, 1, j - 1))

\* the two halves of the cut block in the documents returned
LeftHalf == Content(out.left.content[Len(out.left.content)])

RightHalf == Content(out.right.content[1])

C15_AbsoluteClamps ==
    (pc = "split" /\ isNumber(pos)) =>
        LET blocks == Blocks(Value(snap.a))
            n == Len(blocks)
            total == computeBlockLengths(Value(snap.a)).total
        IN  /\ n = 0 => out.blockIndex = 0 /\ out.offset = 0
            /\ (n > 0 /\ pos.abs >= total) =>
                  out.blockIndex = n - 1 /\ out.offset = blockLength(blocks[n])
            /\ (n > 0 /\ pos.abs <= 0) => out.blockIndex = 0 /\ out.offset = 0

\* C20: a null or undefined document, or one without blocks, is split into
\* two documents without blocks, whatever the position, absolute or pair.
C20_SplitOfEmpty ==
    (pc = "split" /\ Len(Blocks(snap.a)) = 0) =>
        out.left = EmptyDoc /\ out.right = EmptyDoc

\* a null document split at a pair position outside any range
C20_Witness ==
    /\ pc = "split" /\ isFalsy(snap.a)
    /\ ~isNumber(pos) /\ pos.blockIndex < 0 /\ pos.offset > 0
    /\ out.left = EmptyDoc /\ out.right = EmptyDoc

-----------------------------------------------------------------------------
(* Properties of mergeDocuments (SpecMerge)                                *)

BothHaveBlocks ==
    /\ WellFormed(snap.a) /\ WellFormed(snap.b)
    /\ Len(snap.a.content) > 0 /\ Len(snap.b.content) > 0

LastA == snap.a.content[Len(snap.a.content)]

FirstB == snap.b.content[1]

\* same type and structurally equal attrs
Compatible == LastA.type = FirstB.type /\ SameAttrs(LastA, FirstB)

\* C6: no block of a returned document holds two consecutive text runs whose
\* mark sets are equal (same marks in any order, no marks list = empty list).
C6_NoEqualNeighbours ==
    pc = "merged" => NormalizedDoc(out.merged)

\* C7: with blocks on both sides and a compatible boundary, the result is
\* A's blocks but the last, one block holding A's last content followed by
\* B's first content, then B's blocks but the first.
C7_CompatibleBoundary ==
    (pc = "merged" /\ BothHaveBlocks /\ Compatible) =>
        LET na == Normalized(snap.a).content
            nb == Normalized(snap.b).content
            m == out.merged.content
            joined == normalizeBlock(
                        With(Value(LastA), "content",
                             Content(Value(LastA)) \o Content(Value(FirstB))))
        IN  /\ Len(m) = Len(na) + Len(nb) - 1
            /\ m = AllButLast(na) \o <<joined>> \o Tail(nb)

SeamLeft == Content(Value(LastA))[Len(Content(Value(LastA)))]

SeamRight == Content(Value(FirstB))[1]

\* both boundary blocks have content, and the two nodes at the seam are text
\* runs with equal mark sets
SeamOfEqualRuns ==
    /\ Content(LastA) # <<>> /\ Content(FirstB) # <<>>
    /\ isTextNode(SeamLeft) /\ isTextNode(SeamRight)
    /\ MarkSet(SeamLeft) = MarkSet(SeamRight)

\* C12: with a compatible boundary and text runs of equal marks on the two
\* sides of the seam, the merged block is A's last content but its last run,
\* one run with A's marks whose text is A's text followed by B's text, then
\* B's first content but its first run (runs merged where the input already
\* had adjacent runs of equal marks).
C12_SeamRunsJoined ==
    (pc = "merged" /\ BothHaveBlocks /\ Compatible /\ SeamOfEqualRuns) =>
        LET joined == With(SeamLeft, "text", SeamLeft.text \o SeamRight.text)
            expected == normalizeBlock(
                          With(Value(LastA), "content",
                               AllButLast(Content(Value(LastA))) \o <<joined>>
                                 \o Tail(Content(Value(FirstB)))))
        IN  /\ Len(out.merged.content) >= Len(snap.a.content)
            /\ out.merged.content[Len(snap.a.content)] = expected

\* C13: whatever the two arguments, the atomic inline nodes of the result
\* are those of A followed by those of B: as many as in A and B together,
\* two adjacent equal ones still two.
C13_AtomsNeverMerged ==
    pc = "merged" => Atoms(out.merged) = Atoms(snap.a) \o Atoms(snap.b)

\* an atomic node ends A, an equal one starts B, and the boundary blocks
\* became one block
C13_Witness ==
    /\ pc = "merged" /\ BothHaveBlocks /\ Compatible
    /\ Content(LastA) # <<>> /\ Content(FirstB) # <<>>
    /\ IsAtomic(SeamLeft) /\ SeamLeft = SeamRight
    /\ Len(out.merged.content) = 1
    /\ Len(Atoms(out.merged)) >= 3

\* what C9 says a document argument counts as
AsDocument(d) == IF WellFormed(d) THEN d ELSE EmptyDoc

\* C9: an argument that is null/undefined, has no content array or has a
\* root type other than 'doc' counts as the empty document: the result is
\* then the normalized copy of the other argument.
C9_MalformedIsEmpty ==
    pc = "merged" =>
        /\ ~WellFormed(snap.a) => out.merged = Normalized(AsDocument(snap.b))
        /\ ~WellFormed(snap.b) => out.merged = Normalized(AsDocument(snap.a))

-----------------------------------------------------------------------------
(* Properties of the caller's documents (SpecFrame)                        *)

\* C2: whatever calls were made, on whatever documents the caller kept or
\* got back, each document the caller holds is what it was when it got it.
C2_ArgumentsUntouched ==
    docA = snap.a /\ docB = snap.b

C2_Witness ==
    /\ pc = "merged" /\ calls = MaxCalls
    /\ Len(Blocks(docA)) > 0 /\ Len(Blocks(docB)) > 0
    /\ \E i \in DOMAIN docB.content : docB.content[i].ref > 30000
    /\ Len(out.merged.content) = Len(docA.content) + Len(docB.content) - 1

-----------------------------------------------------------------------------
(* Properties of the position mapper (SpecPos)                             *)

\* the absolute position of offset 0 of block i (0-based) of the editor's
\* document
BlockStart(d, i) == 1 + sizeBefore(d, i)

\* a position inside the content of some block, its two ends included
CursorPosition(d, p) ==
    \E i \in 0..(childCount(d) - 1) :
        p >= BlockStart(d, i) /\ p <= BlockStart(d, i) + nodeSize(d.content[i + 1]) - 2

\* C4: a position inside a block's content, mapped to {blockIndex, offset}
\* and back, is the position again; empty blocks and block ends included.
C4_RoundTrip ==
    (pc = "back" /\ ~isFalsy(docA) /\ CursorPosition(docA, pos.abs)) => out.abs = pos.abs

\* the block a pair position addresses, its index clamped into the document
AddressedIndex(d, p) == Max(0, Min(p.blockIndex, childCount(d) - 1))

\* the length of the inline content of block i (0-based)
ContentLength(d, i) == nodeSize(d.content[i + 1]) - 2

\* C14: for every block, an offset greater than the block's length converts
\* to the absolute position that the offset equal to the length converts to:
\* the position at the end of the block's content.
C14_OverlongOffset ==
    (pc = "converted" /\ ~isFalsy(docA) /\ childCount(docA) > 0) =>
        LET bi == AddressedIndex(docA, pos)
            len == ContentLength(docA, bi)
        IN  pos.offset > len =>
              /\ out.abs = computeAbsolutePosForBlockOffset(docA, pos.blockIndex, len)
              /\ out.abs = BlockStart(docA, bi) + len

-----------------------------------------------------------------------------
(* Properties of the text extraction and of the label resolver             *)
(* (SpecExtract)                                                           *)

\* the absolute position of inline node j of block b (both 1-based)
InlinePos(d, b, j) == BlockStart(d, b - 1) + OffsetOf(Content(d.content[b]), j)

\* what the extraction appended for the node at position p
AppendedAt(p) ==
    {out.parts[i].added : i \in {k \in DOMAIN out.parts : out.parts[k].pos = p}}

RECURSIVE Flatten(_)
Flatten(parts) ==
    IF parts = <<>> THEN <<>>
    ELSE Head(parts).sep \o Head(parts).added \o Flatten(Tail(parts))

\* C16: for every range the extraction does not fail and appends, in
\* document order, for each text run its part inside the range and for each
\* atomic inline node whose position is in the range, whatever its type, a
\* non-empty label that starts with '#' (for a project chip the label that
\* resolveLabel gives).
C16_LabelsForAtoms ==
    (pc = "extracted" /\ ~isFalsy(docA)) =>
        /\ ~out.thrown
        /\ out.result = Flatten(out.parts)
        /\ \A i \in DOMAIN out.parts : \A k \in DOMAIN out.parts :
              i < k => out.parts[i].pos < out.parts[k].pos
        /\ \A b \in DOMAIN docA.content : \A j \in DOMAIN Content(docA.content[b]) :
              LET n == docA.content[b].content[j]
                  p == InlinePos(docA, b, j)
                  lo == Max(pos.from, p)
                  hi == Min(pos.to, p + _childTextLength(n))
              IN  IF isText(n)
                  THEN hi > lo => AppendedAt(p) = {SubSeq(n.text, lo - p + 1, hi - p)}
                  ELSE (pos.from <= p /\ p < pos.to) =>
                         /\ \A a \in AppendedAt(p) : a # <<>> /\ a[1] = "#"
                         /\ AppendedAt(p) # {}
                         /\ n.type = "projectChip" =>
                              AppendedAt(p) = {resolveLabel(attrOrNull(n, "projectId"),
                                                            attrOrNull(n, "projectName")).value}

RECURSIVE AddedWithin(_, _, _)
\* the text appended for the nodes at positions lo .. hi - 1, in order
AddedWithin(parts, lo, hi) ==
    IF parts = <<>> THEN <<>>
    ELSE (IF Head(parts).pos >= lo /\ Head(parts).pos < hi THEN Head(parts).added ELSE <<>>)
         \o AddedWithin(Tail(parts), lo, hi)

\* the text contributed by block b (1-based) of the editor's document
Contribution(b) ==
    AddedWithin(out.parts, BlockStart(docA, b - 1),
                BlockStart(docA, b - 1) + ContentLength(docA, b - 1))

RECURSIVE JoinContributions(_, _)
\* the contributions of blocks b.. that are not empty, one newline between
\* two of them
JoinContributions(b, started) ==
    IF b > Len(docA.content) THEN <<>>
    ELSE IF Contribution(b) = <<>> THEN JoinContributions(b + 1, started)
    ELSE (IF started THEN <<"\n">> ELSE <<>>) \o Contribution(b) \o JoinContributions(b + 1, TRUE)

\* C17: the text returned is the texts contributed by the blocks, in order,
\* with exactly one newline between two consecutive contributing blocks:
\* none before the first, none for a block that contributes no text.
C17_BlockSeparator ==
    (pc = "extracted" /\ ~isFalsy(docA)) => out.result = JoinContributions(1, FALSE)

\* the projects of the store that have the id given, none when the id is
\* null or empty or the store cannot be read
StoredWithId(id) ==
    IF projects = Unavailable \/ ~isTruthy(id) THEN <<>>
    ELSE SelectSeq(projects, LAMBDA p : p.id = id[1])

Placeholder == Hash(<<"P", "r", "o", "j", "e", "c", "t">>)

\* the label by the order of fallbacks after the store
FallbackLabel(projectId, projectName) ==
    IF isTruthy(projectName) THEN Hash(projectName[1])
    ELSE IF isTruthy(projectId) THEN Hash(projectId[1])
    ELSE Placeholder

\* C18 as stated: resolveLabel never throws, even when the store lookup
\* does, returns a string that starts with '#', and the label is the name
\* the store has for the id if the project is found, else the baked-in
\* projectName if non-empty, else the raw projectId, else '#Project'.
C18_LabelPriority ==
    pc = "labelled" =>
        /\ ~out.label.thrown
        /\ out.label.value[1] = "#"
        /\ out.label.value =
              IF StoredWithId(out.projectId) # <<>>
              THEN Hash(StoredWithId(out.projectId)[1].name)
              ELSE FallbackLabel(out.projectId, out.projectName)

\* C18 amended: as stated, the name of the store being used if the project
\* is found and its name is not empty.
C18_LabelPriorityNonEmpty ==
    pc = "labelled" =>
        /\ ~out.label.thrown
        /\ out.label.value[1] = "#"
        /\ out.label.value =
              IF StoredWithId(out.projectId) # <<>> /\ StoredWithId(out.projectId)[1].name # <<>>
              THEN Hash(StoredWithId(out.projectId)[1].name)
              ELSE FallbackLabel(out.projectId, out.projectName)

\* the lookup threw and the label is the baked-in name
C18_Witness ==
    /\ pc = "labelled" /\ projects = Unavailable
    /\ isTruthy(out.projectId) /\ isTruthy(out.projectName)
    /\ out.label = Returned(Hash(out.projectName[1]))

-----------------------------------------------------------------------------
(* Properties of merging with the empty document (SpecEmpty)               *)

\* C19: a document merged with the empty document, on either side, is the
\* normalized copy of the document; that result merged with the empty
\* document again is structurally the same document.
C19_EmptyIsNormalize ==
    pc = "merged" =>
        /\ Blocks(snap.b) = <<>> => out.merged = Normalized(snap.a)
        /\ Blocks(snap.a) = <<>> => out.merged = Normalized(snap.b)
        /\ calls > 1 => out.merged = Value(snap.a)

\* the second merge, of a result in which the first merge joined two runs
C19_Witness ==
    /\ pc = "merged" /\ calls = 2
    /\ out.merged = [type |-> "doc",
                      content |-> <<P(<<Tm(<<"e", "f", "y">>, <<Bold>>)>>)>>]

-----------------------------------------------------------------------------
(* Properties of the content API (SpecInsert)                              *)

\* the position of the editor's document a position argument stands for: a
\* 0-based absolute number n is position n + 1, a pair is the offset inside
\* the block
InsertionPoint(d, p) ==
    IF isNumber(p) THEN p.abs + 1 ELSE BlockStart(d, p.blockIndex) + p.offset

\* C21: insertAt(position, content) returns true and puts the content in at
\* the position given, for an absolute number and for a {blockIndex, offset}
\* pair alike, wherever the cursor is.
C21_InsertAtPosition ==
    pc = "inserted" =>
        /\ out.ok
        /\ docA = insertContentAt(snap.a, InsertionPoint(snap.a, pos), <<"X">>)

-----------------------------------------------------------------------------
(* Properties of the editors registry (SpecRegistry)                       *)

\* the function registered for an id after the calls of a log: the last one
\* registered for it and not since removed
RECURSIVE LastRegistered(_, _)
LastRegistered(log, id) ==
    IF log = <<>> THEN <<>>
    ELSE LET e == log[Len(log)]
             before == LastRegistered(SubSeq(log, 1, Len(log) - 1), id)
         IN  IF e.op = "clear" THEN <<>>
             ELSE IF e.id # id THEN before
             ELSE IF e.op = "unregister" THEN <<>>
             ELSE IF id # "" /\ e.fn.kind = "function" THEN <<e.fn>>
             ELSE before

\* C22: focusEditorById(id) invokes the function last registered for id and
\* not since removed, and resolves to true whenever there is one, whether
\* or not the function succeeded; it resolves to false only when no editor
\* is registered for id.
C22_FocusResolvesTrue ==
    pc = "focused" =>
        LET fn == LastRegistered(out.log, out.id)
        IN  /\ out.invoked = fn
            /\ out.focused = (fn # <<>>)

-----------------------------------------------------------------------------
(* Distribution of the blocks by a split (SpecSplit)                       *)

\* the block index a position targets, clamped into the document's blocks
TargetIndex(d, p) ==
    LET n == Len(Blocks(d))
        bi == IF isNumber(p) THEN absolutePosToBlockOffset(d, p.abs).blockIndex
              ELSE p.blockIndex
    IN  Max(0, Min(bi, n - 1))

\* C23: for a document of n >= 1 blocks and clamped target block index i,
\* the left result has exactly i + 1 blocks, the normalized blocks 0..i-1
\* and then the left half of block i; the right result has exactly n - i
\* blocks, the right half of block i and then the normalized blocks
\* i+1..n-1; both halves of block i have its type and attrs.
C23_BlockDistribution ==
    (pc = "split" /\ Len(Blocks(snap.a)) >= 1) =>
        LET d == Value(snap.a)
            n == Len(d.content)
            i == TargetIndex(d, pos)
            norm == Normalized(d).content
            l == out.left.content
            r == out.right.content
        IN  /\ Len(l) = i + 1
            /\ Len(r) = n - i
            /\ \A k \in 1..i : l[k] = norm[k]
            /\ \A k \in 2..(n - i) : r[k] = norm[i + k]
            /\ l[i + 1].type = d.content[i + 1].type
            /\ r[1].type = d.content[i + 1].type
            /\ Opt(l[i + 1], "attrs") = Opt(d.content[i + 1], "attrs")
            /\ Opt(r[1], "attrs") = Opt(d.content[i + 1], "attrs")

\* a split inside the second of two blocks, a heading with attrs, after a
\* block that normalizing changes
C23_Witness ==
    /\ pc = "split"
    /\ Value(snap.a).content = <<PBoldPair, H1>>
    /\ pos = [blockIndex |-> 1, offset |-> 1]
    /\ Len(out.left.content) = 2 /\ Len(out.right.content) = 1
    /\ out.left.content[1] # PBoldPair

-----------------------------------------------------------------------------
(* Length accounting of an absolute split (SpecSplit)                      *)

\* flattened length: a text character counts 1, any other inline node 1, a
\* block 0
RECURSIVE FlatInline(_)
FlatInline(content) ==
    IF content = <<>> THEN 0
    ELSE (IF Head(content).type = "text" THEN Len(Head(content).text) ELSE 1)
         + FlatInline(Tail(content))

RECURSIVE FlatBlocks(_)
FlatBlocks(bs) ==
    IF bs = <<>> THEN 0 ELSE FlatInline(Content(Head(bs))) + FlatBlocks(Tail(bs))

FlatLength(d) == FlatBlocks(Blocks(d))

\* the flattened length of the blocks 0..i of a document
CumulativeEnd(d, i) == FlatBlocks(SubSeq(Blocks(d), 1, i + 1))

\* the absolute position of the last split, clamped into [0, T]
ClampedAbs == Max(0, Min(pos.abs, FlatLength(snap.a)))

\* the blocks whose cumulative end is the clamped position
EndingAt == {i \in 0..(Len(Blocks(snap.a)) - 1) : CumulativeEnd(snap.a, i) = ClampedAbs}

FirstEndingAt == CHOOSE i \in EndingAt : \A j \in EndingAt : i <= j

SelectsFirstEnding ==
    /\ out.blockIndex = FirstEndingAt
    /\ out.offset = FlatInline(Content(Blocks(snap.a)[FirstEndingAt + 1]))

OnlyRunsAndAtoms(d) ==
    \A i \in DOMAIN Blocks(d) : \A j \in DOMAIN Content(Blocks(d)[i]) :
        LET n == Content(Blocks(d)[i])[j] IN isTextNode(n) \/ IsAtomic(n)

-----------------------------------------------------------------------------
(* Associativity of merging (SpecAssoc)                                    *)

\* C25: for all documents A, B, C, empty ones and ones whose single block
\* is empty included, mergeDocuments(mergeDocuments(A, B), C) is
\* structurally equal to mergeDocuments(A, mergeDocuments(B, C)).
C25_MergeAssociative ==
    pc = "a_bc" => out.left = out.right

\* an empty block between two paragraphs of text: all three become one
C25_Witness ==
    /\ pc = "a_bc"
    /\ docA = [type |-> "doc", content |-> <<PPlain>>]
    /\ docB = [type |-> "doc", content |-> <<PEmpty>>]
    /\ docC = [type |-> "doc", content |-> <<PPlain>>]
    /\ out.right.content = <<P(<<T(<<"a", "b", "a", "b">>)>>)>>

-----------------------------------------------------------------------------
(* Properties of the Editor component (SpecEditor)                         *)

\* no timer is pending and no effect is scheduled
Quiescent == debounceTimer = <<>> /\ ~effectDirty

\* C26: when the parent assigns the bound content while a debounced update
\* is pending, then once all timers and effects have run the bound content
\* and the editor's document both are the parent's value: the JSON the
\* timer captured before is not written over it.
C26_ParentValueSurvives ==
    (Quiescent /\ snap.raced) =>
        /\ boundContent = snap.parent
        /\ editorDoc = snap.parent

-----------------------------------------------------------------------------
(* Properties of the agenda (SpecStore)                                    *)

RECURSIVE JoinContents(_)
JoinContents(bs) ==
    IF bs = <<>> THEN <<>> ELSE Head(bs).content \o JoinContents(Tail(bs))

IsStored(bs, id) == \E i \in DOMAIN bs : bs[i].id = id

\* the concatenated text of a store: of its blocks as they are rendered,
\* then of those that are not rendered
StoreText(bs) ==
    LET view == documentView(bs)
        stored(item) == item.type = "block" /\ IsStored(bs, item.id)
        hidden(b) == \A i \in DOMAIN view : view[i].id # b.id
    IN  JoinContents(SelectSeq(view, stored)) \o JoinContents(SelectSeq(sortedBlocks(bs), hidden))

\* the stored block of an id
StoredBlock(bs, id) == bs[CHOOSE i \in DOMAIN bs : bs[i].id = id]

\* C27: Backspace with the cursor at the start of a stored block that is not
\* the first render item removes the block from the store and appends the
\* text right of the cursor to the stored content of the item rendered
\* just before it, so that the concatenated text of the store is
\* unchanged, also when that item is an injected date header.
C27_BackspaceKeepsText ==
    (/\ pc = "backspaced"
     /\ out.left = <<>>
     /\ IsStored(snap, out.block.id)
     /\ out.block.index > 0) =>
        /\ ~IsStored(blocksStore, out.block.id)
        /\ StoreText(blocksStore) = StoreText(snap)

\* the orders of the blocks of one date are all different
UniqueOrders(bs) ==
    \A i, j \in DOMAIN bs :
        (i # j /\ bs[i].date = bs[j].date) => bs[i].agenda_order # bs[j].agenda_order

\* C28: the agenda orders of the stored blocks of one date stay unique
\* through createBlock and deleteBlock; createBlock(newBlock) stores
\* newBlock with its requested agenda_order, raises by one the agenda_order
\* of exactly the blocks of the same date whose agenda_order is at least
\* the new one, and leaves every other block as it was.
C28_UniqueOrders ==
    /\ UniqueOrders(blocksStore)
    /\ (pc \in {"created", "entered"} /\ Len(blocksStore) = Len(snap) + 1) =>
          /\ blocksStore[Len(blocksStore)] = out.newBlock
          /\ \A i \in DOMAIN snap :
                blocksStore[i] =
                    IF /\ snap[i].date = out.newBlock.date
                       /\ snap[i].agenda_order >= out.newBlock.agenda_order
                    THEN [snap[i] EXCEPT !.agenda_order = snap[i].agenda_order + 1]
                    ELSE snap[i]
    /\ pc = "created" => Len(blocksStore) = Len(snap) + 1

\* a block created at the order of a stored block, which moves up with the
\* block after it while the header block of the date stays
C28_Witness ==
    /\ pc = "created"
    /\ out.newBlock.date = Today + 1 /\ out.newBlock.agenda_order = 0
    /\ Len(snap) = 2 /\ snap[1].agenda_order = 0 /\ snap[2].agenda_order = 0 - 1
    /\ blocksStore[1].agenda_order = 1 /\ blocksStore[2].agenda_order = 0 - 1

\* the items of the render list that are blocks of a date
BlockItemsOn(view, date) ==
    {i \in DOMAIN view : view[i].type = "block" /\ view[i].date = date}

GhostItemsOn(view, date) ==
    {i \in DOMAIN view : view[i].type = "ghost" /\ view[i].date = date}

\* C29: in the render list of every state of the store each item's index
\* is its position in the list, each of the 7 dates has exactly one ghost
\* item, placed after all blocks of that date, and a stored block appears
\* at most once.
C29_RenderList ==
    LET view == documentView(blocksStore)
    IN  /\ \A i \in DOMAIN view : view[i].index = i - 1
        /\ \A d \in Today..(Today + DaysShown - 1) :
              /\ Cardinality(GhostItemsOn(view, d)) = 1
              /\ \A g \in GhostItemsOn(view, d), b \in BlockItemsOn(view, d) : b < g
        /\ \A j \in DOMAIN blocksStore :
              Cardinality({i \in DOMAIN view :
                              view[i].type = "block" /\ view[i].id = blocksStore[j].id}) <= 1

\* a store with an overdue section, a block created under Enter and a
\* block that is not shown
C29_Witness ==
    /\ pc = "entered"
    /\ Len(blocksStore) = 4
    /\ documentView(blocksStore)[1].type = "overdue"
    /\ \E j \in DOMAIN blocksStore :
          \A i \in DOMAIN documentView(blocksStore) :
              documentView(blocksStore)[i].id # blocksStore[j].id

-----------------------------------------------------------------------------
(* lib/editor/api/popup.ts: the popup of a mark.  hide() raises             *)
(* suppressCheckAndShow and arms a timer that lowers it; the timers armed   *)
(* by earlier calls are neither cleared nor re-armed.  A pending timer is   *)
(* the time at which it is due; time is in milliseconds.                    *)

SuppressDelay == 150    \* setTimeout(..., 150)

Popup(visible, suppress, pending) ==
    [isVisible |-> visible, suppressCheckAndShow |-> suppress, timers |-> pending]

\* show(markName, component, attrs): getMarkRange finds no mark at the cursor
\* and show returns, or the popup becomes visible
show(popup, cursorHasMark) ==
    IF ~cursorHasMark THEN popup
    ELSE Popup(TRUE, popup.suppressCheckAndShow, popup.timers)

\* hide() at time t
hide(popup, t) ==
    Popup(FALSE, TRUE, popup.timers \cup {t + SuppressDelay})

\* checkAndShow(markName, component) at time t
checkAndShow(popup, cursorHasMark, t) ==
    IF popup.suppressCheckAndShow THEN popup
    ELSE IF cursorHasMark THEN show(popup, cursorHasMark)
    ELSE hide(popup, t)

\* the callback of a timer
timerCallback150(popup, due) ==
    Popup(popup.isVisible, FALSE, popup.timers \ {due})

-----------------------------------------------------------------------------
(* SpecPopup: hide, checkAndShow and timer expiries interleave while time   *)
(* passes.  A timer runs no earlier than it is due, and time does not pass  *)
(* a whole Tick beyond a due timer.  snap remembers when hide() was last    *)
(* called and when checkAndShow last made the popup visible.                *)

Tick == 50          \* milliseconds by which time passes at once
MaxTime == 400      \* time is observed up to here

CurrentPopup == Popup(isVisible, suppressCheckAndShow, timers)

NeverHidden == [lastHide |-> <<>>, shownAt |-> <<>>]

popupFrame ==
    <<docA, docB, docC, pos, projects, calls, selection, registry, blocksStore,
      editorVars>>

InitPopup ==
    /\ pc = "ready"
    /\ isVisible = FALSE
    /\ suppressCheckAndShow = FALSE
    /\ timers = {}
    /\ now = 0
    /\ out = NoOut
    /\ snap = NeverHidden
    /\ docA = Nullish
    /\ docB = Nullish
    /\ docC = Nullish
    /\ pos = NoPos
    /\ projects = <<>>
    /\ calls = 0
    /\ selection = 1
    /\ registry = emptyRegistry
    /\ blocksStore = initialBlocks
    /\ boundContent = EmptyDoc
    /\ editorDoc = EmptyDoc
    /\ debounceTimer = <<>>
    /\ effectDirty = FALSE

SetPopup(popup) ==
    /\ isVisible' = popup.isVisible
    /\ suppressCheckAndShow' = popup.suppressCheckAndShow
    /\ timers' = popup.timers

\* hide(), from autoHide, onHide or a command
Hide ==
    /\ SetPopup(hide(CurrentPopup, now))
    /\ snap' = [snap EXCEPT !.lastHide = <<now>>]
    /\ pc' = "hidden"
    /\ UNCHANGED <<now, out>>
    /\ UNCHANGED popupFrame

\* checkAndShow(markName, component), the cursor being on the mark or not
CheckAndShow ==
    /\ \E cursorHasMark \in BOOLEAN :
         LET r == checkAndShow(CurrentPopup, cursorHasMark, now)
         IN  /\ SetPopup(r)
             /\ out' = [cursorHasMark |-> cursorHasMark,
                        suppressed |-> suppressCheckAndShow]
             /\ snap' = IF suppressCheckAndShow THEN snap
                        ELSE IF cursorHasMark
                             THEN [snap EXCEPT !.shownAt = <<now>>]
                             ELSE [snap EXCEPT !.lastHide = <<now>>]
             /\ pc' = IF suppressCheckAndShow THEN "suppressed"
                      ELSE IF cursorHasMark THEN "shown" ELSE "hidden"
    /\ UNCHANGED now
    /\ UNCHANGED popupFrame

\* a timer armed by hide() runs
TimerExpires ==
    /\ \E due \in timers :
         /\ due <= now
         /\ SetPopup(timerCallback150(CurrentPopup, due))
    /\ pc' = "expired"
    /\ UNCHANGED <<now, out, snap>>
    /\ UNCHANGED popupFrame

\* time passes
TimePasses ==
    /\ now + Tick <= MaxTime
    /\ \A due \in timers : due > now
    /\ now' = now + Tick
    /\ UNCHANGED <<pc, out, snap, isVisible, suppressCheckAndShow, timers>>
    /\ UNCHANGED popupFrame

NextPopup == Hide \/ CheckAndShow \/ TimerExpires \/ TimePasses

SpecPopup == InitPopup /\ [][NextPopup]_vars

\* C30: checkAndShow does not make the popup visible until SuppressDelay
\* milliseconds have passed since the most recent call of hide(), whatever
\* the interleaving of hide, checkAndShow and timer expiries
C30_NoShowWithinDelay ==
    (pc = "shown" /\ snap.lastHide # <<>>)
        => snap.shownAt[1] - snap.lastHide[1] >= SuppressDelay

====
